---- MODULE Spec2Model ----
(***************************************************************************)
(* flat-scraper: the listings store (database.py), the filter and the      *)
(* notification guard (filters.py, notifier.py) and the scrape cycle of    *)
(* ScraperScheduler (scheduler.py), run by the periodic timer and by       *)
(* trigger_now on a separate thread.                                       *)
(*                                                                         *)
(* Time is counted in hours.  An optional (nullable) value is None or      *)
(* Some(x).  Text is a sequence of one-character strings.                  *)
(*                                                                         *)
(* Specifications:                                                         *)
(*   Spec        one cycle of the timer and one of trigger_now, which may  *)
(*               overlap; adapters, transport and store may fail           *)
(*   SpecSerial  up to MaxCycles cycles, one at a time; same failures      *)
(*   SpecSound   as SpecSerial, with a store that never fails              *)
(*   SpecStore   the store alone under add_listing and mark_notified       *)
(***************************************************************************)
EXTENDS Integers, Sequences, FiniteSets, TLC

\* ------------------------------------------------------------------ bounds
\* The instants at which the clock is read, in hours.
Instants == { 0, 12, 36 }
\* Cycles started over a whole behaviour (timer and trigger_now together).
MaxCycles == 2
\* The longest text handed to extract_price, but for the sample texts.
MaxPriceLen == 5
\* The most pieces a text handed to extract_floor is put together from, but
\* for the sample texts.
MaxFloorParts == 3
\* The longest text handed to extract_rooms, but for the sample texts.
MaxRoomsLen == 5

\* ------------------------------------------------------- program constants
\* since_hours of get_new_listings and hours of should_notify.
SINCE_HOURS == 24
NOTIFY_HOURS == 24

\* retries of get_soup, as every adapter calls it.
DEFAULT_RETRIES == 2

\* The last page of `for page_num in range(1, 4)`.
LAST_PAGE == 3

None == << >>
Some(x) == << x >>

\* FilterService.DEFAULT_CRITERIA, which config.DEFAULT_CRITERIA repeats.
DEFAULT_CRITERIA ==
    [min_rooms |-> 2, max_rooms |-> 4, min_floor |-> 2, max_price |-> 1500,
     areas |-> << >>, exclude_keywords |-> << >>]

\* The three adapters of the list main() builds, in list order.
Scrapers == << "Scout24Scraper", "ImmoweltScraper", "ImmonetScraper" >>

\* The two threads a cycle runs on: the timer's job (APScheduler runs at most
\* one instance of it) and the daemon thread of trigger_now.
Cycles == { "timer", "manual" }

Urls == { "u1", "u2" }

\* ------------------------------------------------------------------- text
\* The letters the texts of the model are written with.
UpperLetters == << "A", "B", "C", "D", "E", "G", "H", "K", "O", "R", "S" >>
LowerLetters == << "a", "b", "c", "d", "e", "g", "h", "k", "o", "r", "s" >>

\* str.lower() on one character.
Lower(ch) ==
    IF \E i \in 1..Len(UpperLetters) : UpperLetters[i] = ch
    THEN LowerLetters[CHOOSE i \in 1..Len(UpperLetters) : UpperLetters[i] = ch]
    ELSE ch

\* A comparison that forgets .lower().
LowerTextUnchanged(t) == t

LowerText(t) == [i \in 1..Len(t) |-> Lower(t[i])]

\* Python's `sub in text`.
Contains(sub, text) ==
    \E i \in 0..(Len(text) - Len(sub)) :
        \A k \in 1..Len(sub) : text[i + k] = sub[k]

\* Python's `x or ""` for an optional text.
OrEmpty(opt) == IF opt = None THEN << >> ELSE opt[1]

\* ---------------------------------------------------------------- filters
\* The merge the other way round, {**criteria, **defaults}: the defaults win.
MergeCriteriaDefaultsWin(defaults, criteria) ==
    [key \in (DOMAIN defaults) \cup (DOMAIN criteria) |->
        IF key \in DOMAIN defaults THEN defaults[key] ELSE criteria[key]]

\* {**self.default_criteria, **(criteria or {})}
MergeCriteria(defaults, criteria) ==
    [key \in (DOMAIN defaults) \cup (DOMAIN criteria) |->
        IF key \in DOMAIN criteria THEN criteria[key] ELSE defaults[key]]

ApplyFilters(listing, criteria) ==
    LET effective == MergeCriteria(DEFAULT_CRITERIA, criteria)
        rooms == listing.rooms
        floor == listing.floor
        price == listing.price
        combined_location ==
            LowerText(OrEmpty(listing.area) \o << " " >> \o OrEmpty(listing.address))
        search_text ==
            LowerText(OrEmpty(listing.description) \o << " " >> \o OrEmpty(listing.address))
    IN  IF rooms # None
           /\ ~(effective.min_rooms <= rooms[1] /\ rooms[1] <= effective.max_rooms)
        THEN FALSE
        ELSE IF floor # None /\ floor[1] < effective.min_floor
        THEN FALSE
        ELSE IF price # None /\ price[1] > effective.max_price
        THEN FALSE
        ELSE IF effective.areas # << >>
                /\ ~(\E a \in 1..Len(effective.areas) :
                        Contains(LowerText(effective.areas[a]), combined_location))
        THEN FALSE
        ELSE IF effective.exclude_keywords # << >>
                /\ (\E a \in 1..Len(effective.exclude_keywords) :
                        Contains(LowerText(effective.exclude_keywords[a]), search_text))
        THEN FALSE
        ELSE TRUE

\* -------------------------------------------------------------- datetimes
\* A datetime is an hour count, a tenth of an hour (the part isoformat()
\* leaves out when it is zero, as it does microseconds) and a tzinfo: None
\* when naive, else Some(the UTC offset in hours).  A timedelta is in hours.
Datetime(hour, tenth, tzinfo) == [hour |-> hour, tenth |-> tenth, tzinfo |-> tzinfo]

DigitChar == << "0", "1", "2", "3", "4", "5", "6", "7", "8", "9" >>

IsDigit(ch) == \E d \in 1..Len(DigitChar) : DigitChar[d] = ch

DigitOf(ch) == (CHOOSE d \in 1..Len(DigitChar) : DigitChar[d] = ch) - 1

\* datetime.isoformat(): two digits of hours, ".f" unless the tenth is zero,
\* "+o" when the datetime is aware.
IsoFormat(dt) ==
    << DigitChar[(dt.hour \div 10) + 1], DigitChar[(dt.hour % 10) + 1] >>
    \o (IF dt.tenth = 0 THEN << >> ELSE << ".", DigitChar[dt.tenth + 1] >>)
    \o (IF dt.tzinfo = None THEN << >> ELSE << "+", DigitChar[dt.tzinfo[1] + 1] >>)

\* datetime.fromisoformat(text): Some(datetime), or None for ValueError.
FromIsoFormat(text) ==
    IF Len(text) < 2 \/ ~IsDigit(text[1]) \/ ~IsDigit(text[2])
    THEN None
    ELSE LET hour == 10 * DigitOf(text[1]) + DigitOf(text[2])
             tail == SubSeq(text, 3, Len(text))
             hasTenth == Len(tail) >= 2 /\ tail[1] = "." /\ IsDigit(tail[2])
             tenth == IF hasTenth THEN DigitOf(tail[2]) ELSE 0
             zone == IF hasTenth THEN SubSeq(tail, 3, Len(tail)) ELSE tail
         IN  IF zone = << >>
             THEN Some(Datetime(hour, tenth, None))
             ELSE IF Len(zone) = 2 /\ zone[1] = "+" /\ IsDigit(zone[2])
             THEN Some(Datetime(hour, tenth, Some(DigitOf(zone[2]))))
             ELSE None

\* The place of an aware datetime on the UTC time line, in tenths of an hour
\* (what the comparison of two aware datetimes goes by).
UtcTenths(dt) == 10 * (dt.hour - dt.tzinfo[1]) + dt.tenth

\* datetime.now(timezone.utc) when the clock stands at hour t and tenth f.
UtcNow(t, f) == Datetime(t, f, Some(0))

\* --------------------------------------------------------------- notifier
ShouldNotify(listing, hours, t) ==
    IF listing.notified_at # None
    THEN FALSE
    ELSE listing.scraped_at >= t - hours

\* A window that leaves out its own start.
WithinHoursStrict(scraped_at, clock, hours) ==
    UtcTenths(scraped_at) > UtcTenths(clock) - 10 * hours

\* scraped_at >= datetime.now(timezone.utc) - timedelta(hours=hours)
WithinHours(scraped_at, clock, hours) ==
    UtcTenths(scraped_at) >= UtcTenths(clock) - 10 * hours

\* should_notify on a dict as it comes: notified_at and scraped_at are None
\* (missing or null) or Some(text); clock is what datetime.now(timezone.utc)
\* returns.  ShouldNotify above is this function on a row whose scraped_at is
\* a UTC stamp on the hour, written as its hour count.
ShouldNotifyText(listing, hours, clock) ==
    IF listing.notified_at # None
    THEN FALSE
    ELSE IF listing.scraped_at = None \/ listing.scraped_at = Some(<< >>)
    THEN FALSE
    ELSE LET parsed == FromIsoFormat(listing.scraped_at[1])
         IN  IF parsed = None
             THEN FALSE
             ELSE LET scraped_at ==
                          IF parsed[1].tzinfo = None
                          THEN [parsed[1] EXCEPT !.tzinfo = Some(0)]
                          ELSE parsed[1]
                  IN  WithinHours(scraped_at, clock, hours)

\* ------------------------------------------------------------------ store
\* The row of `table` with this url, as a set (empty when not stored).
RowsOfUrl(table, url) == { r \in table : r.url = url }

\* A lookup that never finds the url.
IsDuplicateNever(table, url) == FALSE

IsDuplicate(table, url) == RowsOfUrl(table, url) # { }

\* AUTOINCREMENT: one more than the largest id ever used (rows are never
\* deleted, so that is the largest id in the table).
NextId(table) ==
    IF table = { } THEN 1
    ELSE 1 + CHOOSE m \in { r.id : r \in table } : \A r \in table : r.id <= m

\* data.get("is_active", 1)
IsActiveOf(data) == IF "is_active" \in DOMAIN data THEN data.is_active ELSE 1

\* data.get("scraped_at", now)
ScrapedAtOf(data, t) == IF "scraped_at" \in DOMAIN data THEN data.scraped_at ELSE t

InsertedRow(table, data, t) ==
    [id |-> NextId(table), site_id |-> data.site_id, url |-> data.url,
     address |-> data.address, rooms |-> data.rooms, floor |-> data.floor,
     price |-> data.price, area |-> data.area, description |-> data.description,
     scraped_at |-> ScrapedAtOf(data, t), notified_at |-> None,
     is_active |-> IsActiveOf(data), created_at |-> t, updated_at |-> t]

\* ON CONFLICT(url) DO UPDATE SET ...: every column but id, url, notified_at
\* and created_at takes the excluded (incoming) value.
UpdatedRow(row, data, t) ==
    [row EXCEPT !.site_id = data.site_id, !.address = data.address,
                !.rooms = data.rooms, !.floor = data.floor, !.price = data.price,
                !.area = data.area, !.description = data.description,
                !.scraped_at = ScrapedAtOf(data, t), !.is_active = IsActiveOf(data),
                !.updated_at = t]

\* A plain INSERT on a table without the UNIQUE constraint.
AddListingInsertOnly(table, data, t) ==
    table \cup { InsertedRow(table, data, t) }

\* INSERT OR REPLACE: the conflicting row is deleted and a fresh one inserted.
AddListingReplace(table, data, t) ==
    { r \in table : r.url # data.url } \cup { InsertedRow(table, data, t) }

\* ON CONFLICT DO UPDATE that leaves updated_at out of its SET list.
AddListingStaleUpdatedAt(table, data, t) ==
    IF RowsOfUrl(table, data.url) # { }
    THEN { IF r.url = data.url
           THEN [UpdatedRow(r, data, t) EXCEPT !.updated_at = r.updated_at]
           ELSE r : r \in table }
    ELSE table \cup { InsertedRow(table, data, t) }

AddListing(table, data, t) ==
    IF RowsOfUrl(table, data.url) # { }
    THEN { IF r.url = data.url THEN UpdatedRow(r, data, t) ELSE r : r \in table }
    ELSE table \cup { InsertedRow(table, data, t) }

\* SELECT id FROM listings WHERE url = ? after the upsert: add_listing's result.
AddListingId(table, data, t) ==
    (CHOOSE r \in AddListing(table, data, t) : r.url = data.url).id

\* The rows in id order (the table scan order of the SELECT).
RECURSIVE RowsById(_)
RowsById(rows) ==
    IF rows = { } THEN << >>
    ELSE LET first == CHOOSE r \in rows : \A q \in rows : r.id <= q.id
         IN  << first >> \o RowsById(rows \ { first })

NewListingRows(table, since_hours, t) ==
    { r \in table : r.scraped_at > t - since_hours /\ r.notified_at = None }

GetNewListings(table, since_hours, t) == RowsById(NewListingRows(table, since_hours, t))

\* An UPDATE that is never committed.
MarkNotifiedNotCommitted(table, listing_id, t) == table

MarkNotified(table, listing_id, t) ==
    { IF r.id = listing_id THEN [r EXCEPT !.notified_at = Some(t)] ELSE r : r \in table }

\* The byte of a character of a timestamp text: "+" is 43, "." is 46 and the
\* digits are 48 to 57.
CharCode(ch) ==
    IF ch = "+" THEN 43
    ELSE IF ch = "." THEN 46
    ELSE IF IsDigit(ch) THEN 48 + DigitOf(ch)
    ELSE 120

\* A comparison that lets equal texts through.
RECURSIVE TextGreaterOrEqual(_, _)
TextGreaterOrEqual(a, b) ==
    IF b = << >> THEN TRUE
    ELSE IF a = << >> THEN FALSE
    ELSE IF Head(a) = Head(b) THEN TextGreaterOrEqual(Tail(a), Tail(b))
    ELSE CharCode(Head(a)) > CharCode(Head(b))

\* a > b between two TEXT values in SQLite (BINARY collation): the first
\* byte that differs decides, and a proper prefix is the smaller.
RECURSIVE TextGreater(_, _)
TextGreater(a, b) ==
    IF a = << >> THEN FALSE
    ELSE IF b = << >> THEN TRUE
    ELSE IF Head(a) = Head(b) THEN TextGreater(Tail(a), Tail(b))
    ELSE CharCode(Head(a)) > CharCode(Head(b))

\* get_new_listings on rows that hold scraped_at as the text that was
\* written: the cutoff is the isoformat() of an aware datetime and SQLite
\* compares the two texts.  NewListingRows above is this query on rows whose
\* scraped_at is a UTC stamp on the hour, written as its hour count.
NewListingRowsText(table, since_hours, clock) ==
    LET cutoff == IsoFormat([clock EXCEPT !.hour = @ - since_hours])
    IN  { r \in table : TextGreater(r.scraped_at, cutoff) /\ r.notified_at = None }

\* --------------------------------------------------------------- adapters
\* What _parse_item builds for one card: `variant` stands for the page content.
\* Variant 1 matches DEFAULT_CRITERIA, variant 2 has one room too few.
ParsedItem(url, variant, t) ==
    IF variant = 1
    THEN [site_id |-> "sid_a", url |-> url, address |-> Some(<< "A", "b" >>),
          rooms |-> Some(3), floor |-> Some(3), price |-> Some(1000),
          area |-> Some(<< "b" >>), description |-> None, scraped_at |-> t]
    ELSE [site_id |-> "sid_b", url |-> url, address |-> None,
          rooms |-> Some(1), floor |-> None, price |-> Some(1500),
          area |-> None, description |-> None, scraped_at |-> t]

\* The lists scrape() of adapter number i may return at time t: flat u1 is
\* listed on all three sites (Immowelt shows it with other details), flat u2
\* on Scout24 alone, and every site may list nothing.
ScrapeResults(i, t) ==
    CASE i = 1 -> { << >>, << ParsedItem("u1", 1, t), ParsedItem("u2", 1, t) >> }
      [] i = 2 -> { << >>, << ParsedItem("u1", 2, t) >> }
      [] OTHER -> { << >>, << ParsedItem("u1", 1, t) >> }

\* Two adapters with a fixed page each, for a scheduler constructed with
\* another list than main's: the first lists flat u2 alone, with details that
\* match DEFAULT_CRITERIA; the second lists flat u1 alone, with either details.
StubScrapers == << "StubUnseen", "StubDuplicate" >>

\* scraper.scrape() of the adapter object `scraper` at time t.
ScrapeOf(scraper, t) ==
    CASE scraper = "StubUnseen" -> { << ParsedItem("u2", 1, t) >> }
      [] scraper = "StubDuplicate" -> { << ParsedItem("u1", v, t) >> : v \in { 1, 2 } }
      [] OTHER -> ScrapeResults(CHOOSE i \in 1..Len(Scrapers) : Scrapers[i] = scraper, t)

\* ------------------------------------------------- adapters: text helpers
\* Texts here are what a page shows: digits, ".", ",", " ", letters, the
\* euro sign and "nbsp" for the no-break space U+00A0.
IsSpace(ch) == ch \in { " ", "nbsp" }

\* str.replace(ch, "")
Without(text, ch) == SelectSeq(text, LAMBDA c : c # ch)

\* str.strip()
RECURSIVE Strip(_)
Strip(text) ==
    IF text = << >> THEN text
    ELSE IF IsSpace(Head(text)) THEN Strip(Tail(text))
    ELSE IF IsSpace(text[Len(text)]) THEN Strip(SubSeq(text, 1, Len(text) - 1))
    ELSE text

\* The length of the run of digits that starts at position i.
RECURSIVE DigitsFrom(_, _)
DigitsFrom(text, i) ==
    IF i <= Len(text) /\ IsDigit(text[i]) THEN 1 + DigitsFrom(text, i + 1) ELSE 0

\* int() of a text of digits.
RECURSIVE IntOf(_)
IntOf(digits) ==
    IF digits = << >> THEN 0
    ELSE 10 * IntOf(SubSeq(digits, 1, Len(digits) - 1)) + DigitOf(digits[Len(digits)])

\* A float with a finite decimal expansion: num / 10^scale, scale as small
\* as it can be.
RECURSIVE Float(_, _)
Float(num, scale) ==
    IF scale > 0 /\ num % 10 = 0 THEN Float(num \div 10, scale - 1)
    ELSE [num |-> num, scale |-> scale]

\* float() of digits with at most one "." among them.
FloatOf(raw) ==
    LET point == { i \in 1..Len(raw) : raw[i] = "." }
    IN  Float(IntOf(Without(raw, ".")),
              IF point = { } THEN 0 ELSE Len(raw) - (CHOOSE i \in point : TRUE))

\* (?:,\d+)? tried at position i: the position after it.
AfterDecimals(text, i) ==
    IF i <= Len(text) /\ text[i] = "," /\ DigitsFrom(text, i + 1) >= 1
    THEN i + 1 + DigitsFrom(text, i + 1)
    ELSE i

\* (?:\.\d{3})* tried at position i: the position after the last group.
RECURSIVE AfterGroups(_, _)
AfterGroups(text, i) ==
    IF i <= Len(text) /\ text[i] = "." /\ DigitsFrom(text, i + 1) >= 3
    THEN AfterGroups(text, i + 4)
    ELSE i

\* \d{1,3}(?:\.\d{3})*(?:,\d+)?|\d+(?:,\d+)? tried at position i: Some(the
\* position after the match) or None.  The alternatives are tried in order
\* and each part is greedy; every part after the first digit may match
\* nothing, so the first alternative never backtracks and never fails where
\* the second could match.
PriceMatchEnd(text, i) ==
    IF DigitsFrom(text, i) >= 1
    THEN LET digits == IF DigitsFrom(text, i) < 3 THEN DigitsFrom(text, i) ELSE 3
         IN  Some(AfterDecimals(text, AfterGroups(text, i + digits)))
    ELSE IF DigitsFrom(text, i) >= 1
    THEN Some(AfterDecimals(text, i + DigitsFrom(text, i)))
    ELSE None

\* BaseScraper.extract_price: None, or Some(the float).
ExtractPrice(text) ==
    IF text = << >>
    THEN None
    ELSE LET cleaned == Strip(Without(text, "nbsp"))
             starts == { i \in 1..Len(cleaned) : PriceMatchEnd(cleaned, i) # None }
         IN  IF starts = { }
             THEN None
             ELSE LET start == CHOOSE i \in starts : \A k \in starts : i <= k
                      group == SubSeq(cleaned, start, PriceMatchEnd(cleaned, start)[1] - 1)
                      raw == [i \in 1..Len(Without(group, ".")) |->
                                 IF Without(group, ".")[i] = "," THEN "."
                                 ELSE Without(group, ".")[i]]
                  IN  Some(FloatOf(raw))

\* re.search(r"(\d+)", text): the first run of digits, as a text, or None.
FirstDigits(text) ==
    LET starts == { i \in 1..Len(text) : IsDigit(text[i]) }
    IN  IF starts = { } THEN None
        ELSE LET start == CHOOSE i \in starts : \A k \in starts : i <= k
             IN  Some(SubSeq(text, start, start + DigitsFrom(text, start) - 1))

\* An extract_floor that looks for a number before it looks for the attic.
ExtractFloorNumberFirst(text) ==
    IF text = << >>
    THEN None
    ELSE LET text_lower == Strip(LowerText(text))
         IN  IF Contains(<< "e", "r", "d", "g", "e", "s", "c", "h", "o", "s", "s" >>, text_lower)
                \/ text_lower = << "e", "g" >>
             THEN Some(0)
             ELSE IF FirstDigits(text) # None
             THEN Some(IntOf(FirstDigits(text)[1]))
             ELSE IF Contains(<< "d", "g" >>, text_lower)
                     \/ Contains(<< "d", "a", "c", "h", "g", "e", "s", "c", "h", "o", "s", "s" >>,
                                 text_lower)
             THEN Some(99)
             ELSE None

\* BaseScraper.extract_floor: None, or Some(the floor).
ExtractFloor(text) ==
    IF text = << >>
    THEN None
    ELSE LET text_lower == Strip(LowerText(text))
         IN  IF Contains(<< "e", "r", "d", "g", "e", "s", "c", "h", "o", "s", "s" >>, text_lower)
                \/ text_lower = << "e", "g" >>
             THEN Some(0)
             ELSE IF Contains(<< "d", "g" >>, text_lower)
                     \/ Contains(<< "d", "a", "c", "h", "g", "e", "s", "c", "h", "o", "s", "s" >>,
                                 text_lower)
             THEN Some(99)
             ELSE IF FirstDigits(text) # None
             THEN Some(IntOf(FirstDigits(text)[1]))
             ELSE None

RECURSIVE Pow10(_)
Pow10(n) == IF n = 0 THEN 1 ELSE 10 * Pow10(n - 1)

\* int() of a float that is not negative: the fraction is cut off.
IntOfFloat(f) == f.num \div Pow10(f.scale)

\* (\d+)[,.](\d+) tried at position i.  \d+ is greedy and what follows a run
\* of digits is no digit, so the match takes the whole run, then the
\* separator, then the whole run after it.
DecimalAt(text, i) ==
    LET sep == i + DigitsFrom(text, i)
    IN  /\ DigitsFrom(text, i) >= 1
        /\ sep <= Len(text) /\ text[sep] \in { ",", "." }
        /\ DigitsFrom(text, sep + 1) >= 1

\* An extract_rooms that looks for a plain integer first.
ExtractRoomsIntegerFirst(text) ==
    IF text = << >> THEN None
    ELSE IF FirstDigits(text) # None THEN Some(IntOf(FirstDigits(text)[1]))
    ELSE None

\* BaseScraper.extract_rooms: None, or Some(the room count).
ExtractRooms(text) ==
    IF text = << >>
    THEN None
    ELSE LET starts == { i \in 1..Len(text) : DecimalAt(text, i) }
         IN  IF starts # { }
             THEN LET start == CHOOSE i \in starts : \A k \in starts : i <= k
                      sep == start + DigitsFrom(text, start)
                      group1 == SubSeq(text, start, sep - 1)
                      group2 == SubSeq(text, sep + 1, sep + DigitsFrom(text, sep + 1))
                  IN  Some(IntOfFloat(FloatOf(group1 \o << "." >> \o group2)))
             ELSE IF FirstDigits(text) # None
             THEN Some(IntOf(FirstDigits(text)[1]))
             ELSE None

\* ------------------------------------------------------------------ state
VARIABLES
    now,        \* the clock, in hours
    listings,   \* the listings table: a set of rows
    cyc,        \* the locals of run_scrape_cycle on each thread
    started,    \* cycles started so far on each thread
    overlap,    \* history: the pairs of runs that were in flight together
    log,        \* history: the send_notification and mark_notified calls made
    scrapers,   \* self.scrapers: the adapters the scheduler was constructed with
    proc,       \* the process: up, shutting down or gone, and the threads it killed
    soup,       \* the frame of a get_soup call and the sleeps and requests it made
    frame,      \* the frame of a scrape() call of one adapter
    main,       \* the frame of main(): its position and what it has set up
    input,      \* the arguments of a function called on its own
    output      \* its return value, None until it has returned

\* The variables no step of run_scrape_cycle writes.
rest == << scrapers, proc, soup, frame, main, input, output >>

\* The process while no shutdown signal has come.
Up == [state |-> "running", killed |-> { }]

\* No page is being fetched.
NoFetch == [pc |-> "idle", attempt |-> 0, trace |-> << >>, result |-> None]

\* No adapter is scraping.
NoScrape ==
    [pc |-> "idle", self |-> None, page_num |-> 0, listings |-> << >>, seen |-> << >>]

\* The components are constructed directly, not by main().
NoMain ==
    [pc |-> "none", env |-> None, config |-> None, db |-> FALSE, adapters |-> << >>,
     timer |-> None, polling |-> FALSE, error |-> None]

\* No function is called on its own.
NoCall == input = None /\ output = None

vars == << now, listings, cyc, started, overlap, log, rest >>

\* The locals of a thread that runs no cycle.  run and failed are history:
\* the number of the run, and the adapters of the run whose try block ended
\* in the except clause.
IdleLocals ==
    [pc |-> "idle", run |-> 0, scraper |-> 0, listings |-> << >>, k |-> 0,
     total_scraped |-> 0, total_new |-> 0, total_notified |-> 0,
     new_listings |-> << >>, j |-> 0,
     failed |-> 0]

\* log is a multiset: the n-th call with the same operation, row id, run and
\* result is recorded with that n.
Logged(lg, op, id, run, ok) ==
    LET n == Cardinality({ e \in lg : e.op = op /\ e.id = id /\ e.run = run /\ e.ok = ok })
    IN  lg \cup { [op |-> op, id |-> id, run |-> run, ok |-> ok, n |-> n + 1] }

Init ==
    /\ now = 0
    /\ listings = { }
    /\ cyc = [c \in Cycles |-> IdleLocals]
    /\ started = [c \in Cycles |-> 0]
    /\ overlap = { }
    /\ log = { }
    /\ scrapers = Scrapers
    /\ proc = Up
    /\ soup = NoFetch
    /\ frame = NoScrape
    /\ main = NoMain
    /\ NoCall

Tick ==
    /\ \E t \in Instants :
         /\ t > now
         /\ \A u \in Instants : u > now => t <= u
         /\ now' = t
    /\ UNCHANGED << listings, cyc, started, overlap, log, rest >>

\* ------------------------------------------------- run_scrape_cycle: steps
\* The `for scraper in self.scrapers` loop moves on; after the last adapter
\* the sweep starts with get_new_listings.
NextScraper(l) ==
    IF l.scraper < Len(scrapers)
    THEN [l EXCEPT !.pc = "scrape", !.scraper = @ + 1, !.listings = << >>, !.k = 0]
    ELSE [l EXCEPT !.pc = "get_new_listings", !.listings = << >>, !.k = 0]

\* The try block of one adapter ran to its end: total_scraped += 1.
ScraperDone(l) ==
    NextScraper([l EXCEPT !.total_scraped = @ + 1])

\* An `except` around the whole loop: the remaining adapters are skipped.
ScraperFailedSkipsRest(l) ==
    [l EXCEPT !.pc = "get_new_listings", !.failed = @ + 1, !.listings = << >>, !.k = 0]

\* `except Exception`: logged, nothing counted, on to the next adapter.
ScraperFailed(l) ==
    NextScraper([l EXCEPT !.failed = @ + 1])

\* The `for listing in listings` loop moves on.
NextListing(l) ==
    IF l.k < Len(l.listings)
    THEN [l EXCEPT !.pc = "is_duplicate", !.k = @ + 1]
    ELSE ScraperDone(l)

\* The `for listing in new_listings` loop moves on; after the last row the
\* cycle logs its summary.
NextNewListing(l) ==
    IF l.j < Len(l.new_listings)
    THEN [l EXCEPT !.pc = "notify", !.j = @ + 1]
    ELSE [l EXCEPT !.pc = "summary", !.new_listings = << >>, !.j = 0]

\* A sweep that forgets apply_filters.
EligibleUnfiltered(listing, t) == ShouldNotify(listing, NOTIFY_HOURS, t)

\* The guard of send_notification in the sweep.
Eligible(listing, t) ==
    ApplyFilters(listing, DEFAULT_CRITERIA) /\ ShouldNotify(listing, NOTIFY_HOURS, t)

RECURSIVE SumOver(_, _)
SumOver(f, S) ==
    IF S = { } THEN 0
    ELSE LET x == CHOOSE y \in S : TRUE IN f[x] + SumOver(f, S \ { x })

\* Cycles started so far; a run is numbered by its place in that order.
Runs == SumOver(started, Cycles)

\* run_scrape_cycle is entered on thread c.
StartCycle(c) ==
    /\ cyc[c].pc = "idle"
    /\ started' = [started EXCEPT ![c] = @ + 1]
    /\ cyc' = [cyc EXCEPT ![c] =
                 [IdleLocals EXCEPT !.pc = "scrape", !.run = Runs + 1, !.scraper = 1]]
    /\ overlap' = overlap \cup
                    { { Runs + 1, cyc[d].run } : d \in { e \in Cycles : cyc[e].pc # "idle" } }
    /\ UNCHANGED << now, listings, log, rest >>

AllIdle == \A c \in Cycles : cyc[c].pc = "idle"

\* The interval trigger fires the job while no cycle is in flight.
TimerFire == AllIdle /\ Runs < MaxCycles /\ StartCycle("timer")

\* trigger_now while no cycle is in flight: a daemon thread runs the same
\* cycle body.
TriggerNow == AllIdle /\ Runs < MaxCycles /\ StartCycle("manual")

\* The first firing of the interval trigger.
FirstTimerFire == started["timer"] = 0 /\ StartCycle("timer")

\* The first trigger_now after the timer's first cycle has started, whether
\* that cycle is still in flight or not.
FirstTriggerNow ==
    started["manual"] = 0 /\ started["timer"] = 1 /\ StartCycle("manual")

\* scraper.scrape() returns its list.
Scrape(c) ==
    /\ cyc[c].pc = "scrape"
    /\ \E res \in ScrapeOf(scrapers[cyc[c].scraper], now) :
         cyc' = [cyc EXCEPT ![c] =
                   IF res = << >> THEN ScraperDone(cyc[c])
                   ELSE [cyc[c] EXCEPT !.pc = "is_duplicate", !.listings = res, !.k = 1]]
    /\ UNCHANGED << now, listings, started, overlap, log, rest >>

\* scraper.scrape() raises.
ScrapeRaise(c) ==
    /\ cyc[c].pc = "scrape"
    /\ cyc' = [cyc EXCEPT ![c] = ScraperFailed(cyc[c])]
    /\ UNCHANGED << now, listings, started, overlap, log, rest >>

\* is_duplicate(listing["url"]) answers.
CheckDuplicate(c) ==
    /\ cyc[c].pc = "is_duplicate"
    /\ cyc' = [cyc EXCEPT ![c] =
                 IF IsDuplicate(listings, cyc[c].listings[cyc[c].k].url)
                 THEN NextListing(cyc[c])
                 ELSE [cyc[c] EXCEPT !.pc = "add_listing"]]
    /\ UNCHANGED << now, listings, started, overlap, log, rest >>

\* is_duplicate raises a persistence error, inside the adapter's try block.
CheckDuplicateRaise(c) ==
    /\ cyc[c].pc = "is_duplicate"
    /\ cyc' = [cyc EXCEPT ![c] = ScraperFailed(cyc[c])]
    /\ UNCHANGED << now, listings, started, overlap, log, rest >>

\* add_listing(listing); total_new += 1.
StoreListing(c) ==
    /\ cyc[c].pc = "add_listing"
    /\ listings' = AddListing(listings, cyc[c].listings[cyc[c].k], now)
    /\ cyc' = [cyc EXCEPT ![c] = NextListing([cyc[c] EXCEPT !.total_new = @ + 1])]
    /\ UNCHANGED << now, started, overlap, log, rest >>

\* add_listing raises a persistence error, inside the adapter's try block.
StoreListingRaise(c) ==
    /\ cyc[c].pc = "add_listing"
    /\ cyc' = [cyc EXCEPT ![c] = ScraperFailed(cyc[c])]
    /\ UNCHANGED << now, listings, started, overlap, log, rest >>

\* new_listings = get_new_listings(self.db_path)
QueryNew(c) ==
    /\ cyc[c].pc = "get_new_listings"
    /\ LET rows == GetNewListings(listings, SINCE_HOURS, now)
       IN  cyc' = [cyc EXCEPT ![c] =
                     IF rows = << >> THEN [cyc[c] EXCEPT !.pc = "summary"]
                     ELSE [cyc[c] EXCEPT !.pc = "notify", !.new_listings = rows, !.j = 1]]
    /\ UNCHANGED << now, listings, started, overlap, log, rest >>

\* get_new_listings raises: nothing catches it, the exception leaves
\* run_scrape_cycle and the thread's run is over.
QueryNewRaise(c) ==
    /\ cyc[c].pc = "get_new_listings"
    /\ cyc' = [cyc EXCEPT ![c] = IdleLocals]
    /\ UNCHANGED << now, listings, started, overlap, log, rest >>

\* apply_filters(...) and should_notify(...) is false: nothing is sent.
SkipListing(c) ==
    /\ cyc[c].pc = "notify"
    /\ ~Eligible(cyc[c].new_listings[cyc[c].j], now)
    /\ cyc' = [cyc EXCEPT ![c] = NextNewListing(cyc[c])]
    /\ UNCHANGED << now, listings, started, overlap, log, rest >>

\* send_notification(listing) returns True.
SendOk(c) ==
    /\ cyc[c].pc = "notify"
    /\ Eligible(cyc[c].new_listings[cyc[c].j], now)
    /\ log' = Logged(log, "send", cyc[c].new_listings[cyc[c].j].id, cyc[c].run, TRUE)
    /\ cyc' = [cyc EXCEPT ![c].pc = "mark_notified"]
    /\ UNCHANGED << now, listings, started, overlap, rest >>

\* A send_notification that lets the transport error escape.
SendFailRaises(c) ==
    /\ cyc[c].pc = "notify"
    /\ Eligible(cyc[c].new_listings[cyc[c].j], now)
    /\ log' = Logged(log, "send", cyc[c].new_listings[cyc[c].j].id, cyc[c].run, FALSE)
    /\ cyc' = [cyc EXCEPT ![c] = IdleLocals]
    /\ UNCHANGED << now, listings, started, overlap, rest >>

\* The transport fails: send_notification logs and returns False.
SendFail(c) ==
    /\ cyc[c].pc = "notify"
    /\ Eligible(cyc[c].new_listings[cyc[c].j], now)
    /\ log' = Logged(log, "send", cyc[c].new_listings[cyc[c].j].id, cyc[c].run, FALSE)
    /\ cyc' = [cyc EXCEPT ![c] = NextNewListing(cyc[c])]
    /\ UNCHANGED << now, listings, started, overlap, rest >>

\* mark_notified(listing["id"]); total_notified += 1.
Mark(c) ==
    /\ cyc[c].pc = "mark_notified"
    /\ listings' = MarkNotified(listings, cyc[c].new_listings[cyc[c].j].id, now)
    /\ log' = Logged(log, "mark", cyc[c].new_listings[cyc[c].j].id, cyc[c].run, TRUE)
    /\ cyc' = [cyc EXCEPT ![c] = NextNewListing([cyc[c] EXCEPT !.total_notified = @ + 1])]
    /\ UNCHANGED << now, started, overlap, rest >>

\* A sweep that catches the error of mark_notified and goes on to the next
\* record.
MarkRaiseCaught(c) ==
    /\ cyc[c].pc = "mark_notified"
    /\ log' = Logged(log, "mark", cyc[c].new_listings[cyc[c].j].id, cyc[c].run, FALSE)
    /\ cyc' = [cyc EXCEPT ![c] = NextNewListing(cyc[c])]
    /\ UNCHANGED << now, listings, started, overlap, rest >>

\* mark_notified raises: nothing catches it, the exception leaves
\* run_scrape_cycle and the thread's run is over.
MarkRaise(c) ==
    /\ cyc[c].pc = "mark_notified"
    /\ log' = Logged(log, "mark", cyc[c].new_listings[cyc[c].j].id, cyc[c].run, FALSE)
    /\ cyc' = [cyc EXCEPT ![c] = IdleLocals]
    /\ UNCHANGED << now, listings, started, overlap, rest >>

\* logger.info("=== Cycle complete ...") and run_scrape_cycle returns.
Summary(c) ==
    /\ cyc[c].pc = "summary"
    /\ cyc' = [cyc EXCEPT ![c] = IdleLocals]
    /\ UNCHANGED << now, listings, started, overlap, log, rest >>

\* The steps of a running cycle in which every store operation succeeds.
CycleStep(c) ==
    \/ Scrape(c)
    \/ ScrapeRaise(c)
    \/ CheckDuplicate(c)
    \/ StoreListing(c)
    \/ QueryNew(c)
    \/ SkipListing(c)
    \/ SendOk(c)
    \/ SendFail(c)
    \/ Mark(c)
    \/ Summary(c)

\* The steps in which a store operation raises a persistence error.
StoreError(c) ==
    \/ CheckDuplicateRaise(c)
    \/ StoreListingRaise(c)
    \/ QueryNewRaise(c)
    \/ MarkRaise(c)

\* Cycles one at a time; the adapters, the transport and the store may fail.
NextSerial ==
    \/ Tick
    \/ TimerFire
    \/ TriggerNow
    \/ \E c \in Cycles : CycleStep(c)
    \/ \E c \in Cycles : StoreError(c)

SpecSerial == Init /\ [][NextSerial]_vars

\* Cycles one at a time and a store that never fails.
NextSound ==
    \/ Tick
    \/ TimerFire
    \/ TriggerNow
    \/ \E c \in Cycles : CycleStep(c)

SpecSound == Init /\ [][NextSound]_vars

\* One cycle of the timer and one of trigger_now, which may overlap; the
\* adapters, the transport and the store may fail.
Next ==
    \/ Tick
    \/ FirstTimerFire
    \/ FirstTriggerNow
    \/ \E c \in Cycles : CycleStep(c)
    \/ \E c \in Cycles : StoreError(c)

Spec == Init /\ [][Next]_vars

\* ------------------------------------------ the store under direct calls
\* The records add_listing may be handed at time t: what an adapter parses,
\* the same with is_active and a description given, and a record without
\* scraped_at and without any optional field.
ApiRecords(t) ==
    LET parsed == { ParsedItem(u, v, t) : u \in Urls, v \in { 1, 2 } }
    IN  parsed
        \cup { [site_id |-> "sid_c", url |-> u, address |-> Some(<< "K" >>),
                rooms |-> Some(2), floor |-> Some(0), price |-> None,
                area |-> None, description |-> Some(<< "K" >>),
                scraped_at |-> t, is_active |-> 0] : u \in Urls }
        \cup { [site_id |-> "sid_d", url |-> u, address |-> None, rooms |-> None,
                floor |-> None, price |-> None, area |-> None,
                description |-> None] : u \in Urls }

\* The ids mark_notified may be handed: those of stored rows and one more.
AnyIds == 1..(Cardinality(Urls) + 1)

\* Some client calls add_listing(data).
ApiAddListing ==
    /\ \E d \in ApiRecords(now) : listings' = AddListing(listings, d, now)
    /\ UNCHANGED << now, cyc, started, overlap, log, rest >>

\* Some client calls mark_notified(listing_id).
ApiMarkNotified ==
    /\ \E i \in AnyIds : listings' = MarkNotified(listings, i, now)
    /\ UNCHANGED << now, cyc, started, overlap, log, rest >>

NextStore ==
    \/ Tick
    \/ ApiAddListing
    \/ ApiMarkNotified

\* The store alone, under any sequence of add_listing and mark_notified.
SpecStore == Init /\ [][NextStore]_vars

\* -------------------------------- one cycle of a scheduler with two adapters
\* The store before the cycle: flat u1 was stored by add_listing at hour t0,
\* with either details, and was or was not marked notified at that hour.
StoredBefore(variant, t0, notified) ==
    LET table == AddListing({ }, ParsedItem("u1", variant, t0), t0)
    IN  IF notified THEN MarkNotified(table, 1, t0) ELSE table

\* ScraperScheduler(scrapers, ...) over the two stub adapters, in either
\* order, and a store that holds flat u1.
InitE2E ==
    /\ now \in Instants
    /\ \E variant \in { 1, 2 }, t0 \in { t \in Instants : t <= now }, notified \in BOOLEAN :
         listings = StoredBefore(variant, t0, notified)
    /\ cyc = [c \in Cycles |-> IdleLocals]
    /\ started = [c \in Cycles |-> 0]
    /\ overlap = { }
    /\ log = { }
    /\ scrapers \in { StubScrapers, << StubScrapers[2], StubScrapers[1] >> }
    /\ proc = Up
    /\ soup = NoFetch
    /\ frame = NoScrape
    /\ main = NoMain
    /\ NoCall

\* run_scrape_cycle is called once, on either thread.
RunOneCycle == Runs = 0 /\ \E c \in Cycles : StartCycle(c)

\* One cycle in which the adapters return, the store and the transport do
\* not fail, and which is over before the clock (in hours) moves.
NextE2E ==
    \/ RunOneCycle
    \/ \E c \in Cycles : Scrape(c)
    \/ \E c \in Cycles : CheckDuplicate(c)
    \/ \E c \in Cycles : StoreListing(c)
    \/ \E c \in Cycles : QueryNew(c)
    \/ \E c \in Cycles : SkipListing(c)
    \/ \E c \in Cycles : SendOk(c)
    \/ \E c \in Cycles : Mark(c)
    \/ \E c \in Cycles : Summary(c)

SpecE2E == InitE2E /\ [][NextE2E]_vars

\* ------------------------------------------------- apply_filters on its own
\* The listings apply_filters is handed: every field it reads, absent or set.
FilterListings ==
    [rooms : { None, Some(1), Some(2), Some(4), Some(5) },
     floor : { None, Some(0), Some(2), Some(99) },
     price : { None, Some(1500), Some(1501) },
     area : { None, Some(<< "B" >>) },
     address : { None, Some(<< "A", "b" >>) },
     description : { None, Some(<< "K" >>) }]

\* The criteria dicts it is handed: any keys may be left out.
NumericCriteria ==
    { << >>,
      [min_rooms |-> 1, max_rooms |-> 5],
      [min_rooms |-> 4],
      [max_rooms |-> 1],
      [min_floor |-> 1],
      [min_floor |-> 99],
      [max_price |-> 1501] }

AreaLists == { << >>, << << "b" >> >>, << << "x" >>, << "B", " ", "a" >> >>, << << "k" >> >> }

KeywordLists == { << >>, << << "k" >> >>, << << "x" >>, << "a" >> >> }

WithKey(criteria, key, value) ==
    [k \in (DOMAIN criteria) \cup { key } |-> IF k = key THEN value ELSE criteria[k]]

FilterCriteria ==
    LET withAreas ==
            NumericCriteria \cup { WithKey(c, "areas", a) : c \in NumericCriteria, a \in AreaLists }
    IN  withAreas
        \cup { WithKey(c, "exclude_keywords", w) : c \in withAreas, w \in KeywordLists }

InitFilters ==
    /\ now = 0
    /\ listings = { }
    /\ cyc = [c \in Cycles |-> IdleLocals]
    /\ started = [c \in Cycles |-> 0]
    /\ overlap = { }
    /\ log = { }
    /\ scrapers = Scrapers
    /\ proc = Up
    /\ soup = NoFetch
    /\ frame = NoScrape
    /\ main = NoMain
    /\ input \in [listing : FilterListings, criteria : FilterCriteria]
    /\ output = None

\* filter_service.apply_filters(listing, criteria) returns.
ApplyFiltersCall ==
    /\ output = None
    /\ output' = Some(ApplyFilters(input.listing, input.criteria))
    /\ UNCHANGED << now, listings, cyc, started, overlap, log, scrapers, proc, soup, frame, main, input >>

NextFilters == ApplyFiltersCall

SpecFilters == InitFilters /\ [][NextFilters]_vars

\* ------------------------------------------------- should_notify on its own
\* The hours at which the clock stands when should_notify is called.
NotifyInstants == { 40, 41 }

\* The datetimes a scraped_at text is written from: 25, 24 and 23 hours
\* before hour 40 and around it, on the hour or past it, naive, UTC or one
\* hour east of UTC.
WrittenDatetimes ==
    { Datetime(h, f, z) : h \in { 15, 16, 17, 40, 41 }, f \in { 0, 5 },
                          z \in { None, Some(0), Some(1) } }

\* The scraped_at values of the dicts: missing, empty, not a timestamp, or a
\* timestamp text.
ScrapedAtValues ==
    { None, Some(<< >>), Some(<< "x" >>), Some(<< "1", "6", "x" >>) }
    \cup { Some(IsoFormat(dt)) : dt \in WrittenDatetimes }

InitNotify ==
    /\ now \in NotifyInstants
    /\ listings = { }
    /\ cyc = [c \in Cycles |-> IdleLocals]
    /\ started = [c \in Cycles |-> 0]
    /\ overlap = { }
    /\ log = { }
    /\ scrapers = Scrapers
    /\ proc = Up
    /\ soup = NoFetch
    /\ frame = NoScrape
    /\ main = NoMain
    /\ input \in [listing : [notified_at : { None, Some(IsoFormat(UtcNow(17, 5))) },
                             scraped_at : ScrapedAtValues],
                  hours : { NOTIFY_HOURS, 1 },
                  tenth : { 0, 5 }]
    /\ output = None

\* notifier.should_notify(listing, hours) returns; the clock is read at
\* hour `now` and input.tenth past it.
ShouldNotifyCall ==
    /\ output = None
    /\ output' = Some(ShouldNotifyText(input.listing, input.hours, UtcNow(now, input.tenth)))
    /\ UNCHANGED << now, listings, cyc, started, overlap, log, scrapers, proc, soup, frame, main, input >>

NextNotify == ShouldNotifyCall

SpecNotify == InitNotify /\ [][NextNotify]_vars

\* ------------------------------------------------- extract_price on its own
PriceChars == { "0", "1", "5", ".", ",", " " }

\* The texts of at most n characters.
RECURSIVE TextsUpTo(_, _)
TextsUpTo(chars, n) ==
    IF n = 0 THEN { << >> }
    ELSE LET shorter == TextsUpTo(chars, n - 1)
         IN  shorter \cup { Append(t, ch) : t \in shorter, ch \in chars }

\* The price texts: every short text, and some a card shows.
PriceTexts ==
    TextsUpTo(PriceChars, MaxPriceLen)
    \cup { << "1", ".", "2", "0", "0", ",", "5", "0", " ", "€" >>,
           << "1", "5", "0", "0", " ", "€" >>,
           << "1", "nbsp", "2", "0", "0", " ", "€" >>,
           << "a", "b", " ", "9", "5", "0", ",", "-", " ", "€" >>,
           << "€" >> }

InitPrice ==
    /\ now = 0
    /\ listings = { }
    /\ cyc = [c \in Cycles |-> IdleLocals]
    /\ started = [c \in Cycles |-> 0]
    /\ overlap = { }
    /\ log = { }
    /\ scrapers = Scrapers
    /\ proc = Up
    /\ soup = NoFetch
    /\ frame = NoScrape
    /\ main = NoMain
    /\ input \in PriceTexts
    /\ output = None

\* self.extract_price(text) returns.
ExtractPriceCall ==
    /\ output = None
    /\ output' = Some(ExtractPrice(input))
    /\ UNCHANGED << now, listings, cyc, started, overlap, log, scrapers, proc, soup, frame, main, input >>

NextPrice == ExtractPriceCall

SpecPrice == InitPrice /\ [][NextPrice]_vars

\* ------------------------------------------------- extract_floor on its own
\* The pieces floor texts are put together from.
FloorParts ==
    { << "E", "r", "d", "g", "e", "s", "c", "h", "o", "s", "s" >>,
      << "E", "G" >>, << "e", "g" >>,
      << "D", "a", "c", "h", "g", "e", "s", "c", "h", "o", "s", "s" >>,
      << "D", "G" >>, << "d" >>, << "g" >>,
      << "O", "G" >>, << "4" >>, << "1", "2" >>, << "." >>, << " " >> }

\* The texts of at most n pieces.
RECURSIVE Joined(_, _)
Joined(parts, n) ==
    IF n = 0 THEN { << >> }
    ELSE LET shorter == Joined(parts, n - 1)
         IN  shorter \cup { t \o part : t \in shorter, part \in parts }

FloorTexts ==
    Joined(FloorParts, MaxFloorParts)
    \cup { << "4", ".", " ", "O", "G" >>,
           << "3", ".", " ", "O", "G", " ", "(", "D", "G", ")" >>,
           << " ", "E", "G", " ", "nbsp" >> }

InitFloor ==
    /\ now = 0
    /\ listings = { }
    /\ cyc = [c \in Cycles |-> IdleLocals]
    /\ started = [c \in Cycles |-> 0]
    /\ overlap = { }
    /\ log = { }
    /\ scrapers = Scrapers
    /\ proc = Up
    /\ soup = NoFetch
    /\ frame = NoScrape
    /\ main = NoMain
    /\ input \in FloorTexts
    /\ output = None

\* self.extract_floor(text) returns.
ExtractFloorCall ==
    /\ output = None
    /\ output' = Some(ExtractFloor(input))
    /\ UNCHANGED << now, listings, cyc, started, overlap, log, scrapers, proc, soup, frame, main, input >>

NextFloor == ExtractFloorCall

SpecFloor == InitFloor /\ [][NextFloor]_vars

\* --------------------------------------------------------------- shutdown
\* SIGINT or SIGTERM: _shutdown runs scheduler.stop(), which shuts the
\* BackgroundScheduler down without waiting for its running job, and then
\* sys.exit(0) unwinds the main thread.
Shutdown ==
    /\ proc.state = "running"
    /\ proc' = [proc EXCEPT !.state = "stopping"]
    /\ UNCHANGED << now, listings, cyc, started, overlap, log, scrapers, soup, frame, main, input, output >>

\* The interpreter exits.  It first joins the scheduler's worker thread, so
\* it waits for the timer's cycle; the thread of trigger_now is a daemon
\* thread, which is not joined and dies with the process wherever it stands.
Exit ==
    /\ proc.state = "stopping"
    /\ cyc["timer"].pc = "idle"
    /\ proc' = [state |-> "exited", killed |-> { c \in Cycles : cyc[c].pc # "idle" }]
    /\ UNCHANGED << now, listings, cyc, started, overlap, log, scrapers, soup, frame, main, input, output >>

\* The interval trigger fires while the scheduler runs; at most one instance
\* of the job runs at a time.
ScheduledFire ==
    /\ proc.state = "running"
    /\ Runs < MaxCycles
    /\ StartCycle("timer")

\* /refresh reaches trigger_now while the bot polls.
Refresh ==
    /\ proc.state = "running"
    /\ Runs < MaxCycles
    /\ StartCycle("manual")

\* A thread of a process that has not exited takes a step of its cycle; the
\* adapters return and neither store nor transport fails.
ThreadStep(c) ==
    /\ proc.state # "exited"
    /\ \/ Scrape(c)
       \/ CheckDuplicate(c)
       \/ StoreListing(c)
       \/ QueryNew(c)
       \/ SkipListing(c)
       \/ SendOk(c)
       \/ Mark(c)
       \/ Summary(c)

NextShutdown ==
    \/ ScheduledFire
    \/ Refresh
    \/ \E c \in Cycles : ThreadStep(c)
    \/ Shutdown
    \/ Exit

SpecShutdown == Init /\ [][NextShutdown]_vars

\* --------------------------------------------- get_new_listings on its own
\* The scraped_at texts the adapters write at hour h and tenth f: Scout24
\* datetime.now(timezone.utc).isoformat(), Immowelt and Immonet
\* datetime.utcnow().isoformat().
AdapterDatetimes ==
    { Datetime(h, f, z) : h \in { 15, 16, 17, 40 }, f \in { 0, 5 }, z \in { None, Some(0) } }

\* A stored row, as far as the query reads it.
QueryRows(id) ==
    [id : { id },
     scraped_at : { IsoFormat(dt) : dt \in AdapterDatetimes },
     notified_at : { None, Some(IsoFormat(UtcNow(17, 5))) }]

\* A table of two rows, and the tenth the clock stands at when it is read.
InitQuery ==
    /\ now \in NotifyInstants
    /\ listings = { }
    /\ cyc = [c \in Cycles |-> IdleLocals]
    /\ started = [c \in Cycles |-> 0]
    /\ overlap = { }
    /\ log = { }
    /\ scrapers = Scrapers
    /\ proc = Up
    /\ soup = NoFetch
    /\ frame = NoScrape
    /\ main = NoMain
    /\ input \in [table : { { r1, r2 } : r1 \in QueryRows(1), r2 \in QueryRows(2) },
                  tenth : { 0, 5 }]
    /\ output = None

\* get_new_listings(db_path) returns; the clock is read at hour `now` and
\* input.tenth past it.
GetNewListingsCall ==
    /\ output = None
    /\ output' = Some(RowsById(NewListingRowsText(input.table, SINCE_HOURS,
                                                  UtcNow(now, input.tenth))))
    /\ UNCHANGED << now, listings, cyc, started, overlap, log, scrapers, proc, soup, frame, main, input >>

NextQuery == GetNewListingsCall

SpecQuery == InitQuery /\ [][NextQuery]_vars

\* ------------------------------------------------------- get_soup on its own
\* time.sleep(random.uniform(2, 3)): the delays drawn, in tenths of a second.
PolitenessDelays == { 20, 25, 30 }

\* What session.get and raise_for_status can do: a page with a good status,
\* a bad status (HTTPError) or a failed connection (both are
\* requests.RequestException), or an exception of another class.
FetchOutcomes == { "ok", "http_error", "connection_error", "other_error" }

IsRequestException(outcome) == outcome \in { "http_error", "connection_error" }

RECURSIVE Pow2(_)
Pow2(n) == IF n = 0 THEN 1 ELSE 2 * Pow2(n - 1)

\* A back-off that does not grow.
BackoffConstant(attempt) == 10

\* sleep_time = 2 ** attempt, in tenths of a second.
Backoff(attempt) == 10 * Pow2(attempt)

Slept(tenths) == [op |-> "sleep", tenths |-> tenths]

Got(outcome) == [op |-> "get", outcome |-> outcome]

\* get_soup(url) is called, with the default retries.
GetSoup ==
    /\ soup.pc = "idle"
    /\ soup' = [soup EXCEPT !.pc = "for"]
    /\ UNCHANGED << now, listings, cyc, started, overlap, log, scrapers, proc, frame, main, input, output >>

\* for attempt in range(retries + 1), an attempt is left: the header is
\* set and the politeness delay is slept.
Politeness ==
    /\ soup.pc = "for"
    /\ soup.attempt < DEFAULT_RETRIES + 1
    /\ \E d \in PolitenessDelays :
         soup' = [soup EXCEPT !.pc = "get", !.trace = Append(@, Slept(d))]
    /\ UNCHANGED << now, listings, cyc, started, overlap, log, scrapers, proc, frame, main, input, output >>

\* session.get, raise_for_status and, for a good page, the return of the
\* parsed page.  A RequestException goes to the handler, any other
\* exception leaves get_soup.
Fetch ==
    /\ soup.pc = "get"
    /\ \E o \in FetchOutcomes :
         soup' = [soup EXCEPT
                    !.trace = Append(@, Got(o)),
                    !.pc = IF o = "ok" THEN "returned"
                           ELSE IF IsRequestException(o) THEN "except"
                           ELSE "raised",
                    !.result = IF o = "ok" THEN Some("page") ELSE None]
    /\ UNCHANGED << now, listings, cyc, started, overlap, log, scrapers, proc, frame, main, input, output >>

\* except requests.RequestException: the error is logged and, if an attempt
\* is left, the back-off is slept; the loop goes on.
Except ==
    /\ soup.pc = "except"
    /\ soup' = [soup EXCEPT
                  !.pc = "for",
                  !.attempt = @ + 1,
                  !.trace = IF soup.attempt < DEFAULT_RETRIES
                            THEN Append(@, Slept(Backoff(soup.attempt)))
                            ELSE @]
    /\ UNCHANGED << now, listings, cyc, started, overlap, log, scrapers, proc, frame, main, input, output >>

\* A get_soup that raises when its attempts are used up.
ReturnNoneRaises ==
    /\ soup.pc = "for"
    /\ ~ (soup.attempt < DEFAULT_RETRIES + 1)
    /\ soup' = [soup EXCEPT !.pc = "raised"]
    /\ UNCHANGED << now, listings, cyc, started, overlap, log, scrapers, proc, frame, main, input, output >>

\* The loop is over: return None.
ReturnNone ==
    /\ soup.pc = "for"
    /\ ~ (soup.attempt < DEFAULT_RETRIES + 1)
    /\ soup' = [soup EXCEPT !.pc = "returned", !.result = None]
    /\ UNCHANGED << now, listings, cyc, started, overlap, log, scrapers, proc, frame, main, input, output >>

NextSoup == GetSoup \/ Politeness \/ Fetch \/ Except \/ ReturnNone

SpecSoup == Init /\ [][NextSoup]_vars

\* --------------------------------------------------------- scrape() of an adapter
\* The domain an adapter puts before a relative href.
DomainOf(adapter) ==
    CASE adapter = "Scout24Scraper" -> << "https://www.immobilienscout24.de" >>
      [] adapter = "ImmoweltScraper" -> << "https://www.immowelt.de" >>
      [] OTHER -> << "https://www.immonet.de" >>

\* A card of a result page: its data-obid attribute, the href of its link
\* (None when no selector finds a link) and the rest of its content:
\* variant 1 or 2 of ParsedItem, or 0 for a content on which the parse raises.
Card(obid, href, content) == [obid |-> obid, href |-> href, content |-> content]

\* href.startswith("http")
StartsWithHttp(href) == href # << >> /\ Head(href) = "http"

\* url = href if href.startswith("http") else f"https://www.<site>{href}"
UrlOf(adapter, href) == IF StartsWithHttp(href) THEN href ELSE DomainOf(adapter) \o href

\* site_id: f"scout24_{obid}", or the site's name and the first 8 hex digits
\* of the md5 of the url (a text that depends on the url alone).
SiteIdOf(adapter, card) ==
    CASE adapter = "Scout24Scraper" -> << "scout24_" >> \o card.obid
      [] adapter = "ImmoweltScraper" -> << "immowelt_", "md5" >> \o UrlOf(adapter, card.href[1])
      [] OTHER -> << "immonet_", "md5" >> \o UrlOf(adapter, card.href[1])

\* _parse_item(item) at time t: Some(the listing dict), or None when the
\* card has no data-obid (Scout24) or no link, or when anything raised
\* inside the try block.  Only Scout24 reads a floor.
ParseItem(adapter, card, t) ==
    IF adapter = "Scout24Scraper" /\ card.obid = << >> THEN None
    ELSE IF card.href = None THEN None
    ELSE IF card.content = 0 THEN None
    ELSE LET parsed == ParsedItem(UrlOf(adapter, card.href[1]), card.content, t)
         IN  Some([parsed EXCEPT
                     !.site_id = SiteIdOf(adapter, card),
                     !.floor = IF adapter = "Scout24Scraper" THEN @ ELSE None])

\* bool(data.get("url")) and bool(data.get("site_id"))
ValidateListing(data) ==
    /\ "url" \in DOMAIN data /\ data.url # None /\ data.url # << >>
    /\ "site_id" \in DOMAIN data /\ data.site_id # None /\ data.site_id # << >>

\* A loop that is left at the first card that gives no record.
RECURSIVE ParsedItemsAborting(_, _, _)
ParsedItemsAborting(adapter, items, t) ==
    IF items = << >> THEN << >>
    ELSE LET listing == ParseItem(adapter, Head(items), t)
         IN  IF listing # None /\ ValidateListing(listing[1])
             THEN << listing[1] >> \o ParsedItemsAborting(adapter, Tail(items), t)
             ELSE << >>

\* The `for item in items` loop: the records appended to listings.
RECURSIVE ParsedItems(_, _, _)
ParsedItems(adapter, items, t) ==
    IF items = << >> THEN << >>
    ELSE LET listing == ParseItem(adapter, Head(items), t)
             others == ParsedItems(adapter, Tail(items), t)
         IN  IF listing # None /\ ValidateListing(listing[1])
             THEN << listing[1] >> \o others
             ELSE others

\* What a fetched page holds: the cards the selectors find and, for Scout24,
\* whether a "next" link with an href is on it.
ResultPage(items, next) == [items |-> items, next |-> next]

\* The card lists a page may show.
CardLists ==
    { << >>,
      << Card(<< "7" >>, Some(<< "/", "expose", "1" >>), 1) >>,
      << Card(<< "8" >>, Some(<< "/", "expose", "2" >>), 0),
         Card(<< "9" >>, Some(<< "http", "expose", "3" >>), 2) >>,
      << Card(<< >>, Some(<< "/", "expose", "4" >>), 1),
         Card(<< "5" >>, None, 1),
         Card(<< "6" >>, Some(<< >>), 2) >> }

\* The pages an adapter may be served.  Immowelt and Immonet build the url
\* of the next page themselves.
PagesOf(adapter) ==
    IF adapter = "Scout24Scraper"
    THEN { ResultPage(items, next) : items \in CardLists, next \in BOOLEAN }
    ELSE { ResultPage(items, FALSE) : items \in CardLists }

\* A loop that goes on after a page without cards.
NoItemsNever(items) == FALSE

\* `if not items`
NoItems(items) == items = << >>

\* History: what became of page page_num, soup None when its fetch failed.
Seen(page_num, fetched, items, records) ==
    [page_num |-> page_num, fetched |-> fetched, items |-> items, records |-> records]

\* scrape() of `adapter` is entered: listings = [] and the loop starts at
\* page 1.
Entered(adapter) ==
    [pc |-> "get_soup", self |-> adapter, page_num |-> 1, listings |-> << >>, seen |-> << >>]

\* scrape() is called on an adapter, outside any cycle.
ScrapeCall ==
    /\ frame.pc = "idle"
    /\ \E adapter \in { Scrapers[i] : i \in 1..Len(Scrapers) } : frame' = Entered(adapter)
    /\ UNCHANGED << now, listings, cyc, started, overlap, log, scrapers, proc, soup, main, input, output >>

\* soup = self.get_soup(url): get_soup is entered for the page.
FetchPage ==
    /\ frame.pc = "get_soup"
    /\ soup.pc = "idle"
    /\ soup' = [soup EXCEPT !.pc = "for"]
    /\ frame' = [frame EXCEPT !.pc = "soup"]
    /\ UNCHANGED << now, listings, cyc, started, overlap, log, scrapers, proc, main, input, output >>

\* get_soup returned None: the error is logged, the loop is left and
\* scrape() returns what it has collected.
PageFailed ==
    /\ frame.pc = "soup"
    /\ soup.pc = "returned" /\ soup.result = None
    /\ soup' = NoFetch
    /\ frame' = [frame EXCEPT
                   !.pc = "returned",
                   !.seen = Append(@, Seen(frame.page_num, FALSE, << >>, << >>))]
    /\ UNCHANGED << now, listings, cyc, started, overlap, log, scrapers, proc, main, input, output >>

\* get_soup returned a page.  Without cards the loop is left; else each
\* card is parsed and the valid records are appended, and the loop goes on
\* to the next page (after a sleep of 2 to 3 seconds) unless this was page 3
\* or, for Scout24, the page has no "next" link.  When the loop is over
\* scrape() returns listings.
PageParsed ==
    /\ frame.pc = "soup"
    /\ soup.pc = "returned" /\ soup.result # None
    /\ soup' = NoFetch
    /\ \E page \in PagesOf(frame.self) :
         LET records == ParsedItems(frame.self, page.items, now)
             last == \/ NoItems(page.items)
                     \/ frame.self = "Scout24Scraper" /\ ~ page.next
                     \/ ~ (frame.page_num < LAST_PAGE)
         IN  frame' = [frame EXCEPT
                         !.pc = IF last THEN "returned" ELSE "get_soup",
                         !.page_num = IF last THEN @ ELSE @ + 1,
                         !.listings = @ \o records,
                         !.seen = Append(@, Seen(frame.page_num, TRUE, page.items, records))]
    /\ UNCHANGED << now, listings, cyc, started, overlap, log, scrapers, proc, main, input, output >>

\* get_soup raised an exception that is no RequestException: it leaves
\* scrape() too.
ScrapeRaised ==
    /\ frame.pc = "soup"
    /\ soup.pc = "raised"
    /\ soup' = NoFetch
    /\ frame' = [frame EXCEPT !.pc = "raised"]
    /\ UNCHANGED << now, listings, cyc, started, overlap, log, scrapers, proc, main, input, output >>

\* One scrape() call of one adapter.
NextPages ==
    \/ ScrapeCall
    \/ FetchPage
    \/ Politeness
    \/ Fetch
    \/ Except
    \/ ReturnNone
    \/ PageFailed
    \/ PageParsed
    \/ ScrapeRaised

SpecPages == Init /\ [][NextPages]_vars

\* ----------------------------------------- one cycle over fetching adapters
\* listings = scraper.scrape(): scrape() of the adapter is entered.
CallScrape(c) ==
    /\ cyc[c].pc = "scrape"
    /\ frame.pc = "idle"
    /\ frame' = Entered(scrapers[cyc[c].scraper])
    /\ cyc' = [cyc EXCEPT ![c].pc = "scraping"]
    /\ UNCHANGED << now, listings, started, overlap, log, scrapers, proc, soup, main, input, output >>

\* scrape() returns its list to the cycle.
ScrapeReturns(c) ==
    /\ cyc[c].pc = "scraping"
    /\ frame.pc = "returned"
    /\ frame' = NoScrape
    /\ cyc' = [cyc EXCEPT ![c] =
                 IF frame.listings = << >> THEN ScraperDone(cyc[c])
                 ELSE [cyc[c] EXCEPT !.pc = "is_duplicate", !.listings = frame.listings,
                                     !.k = 1]]
    /\ UNCHANGED << now, listings, started, overlap, log, scrapers, proc, soup, main, input, output >>

\* The exception that left scrape() reaches the cycle's `except Exception`.
ScrapeRaises(c) ==
    /\ cyc[c].pc = "scraping"
    /\ frame.pc = "raised"
    /\ frame' = NoScrape
    /\ cyc' = [cyc EXCEPT ![c] = ScraperFailed(cyc[c])]
    /\ UNCHANGED << now, listings, started, overlap, log, scrapers, proc, soup, main, input, output >>

\* A scheduler over two of the adapters, so that each adapter comes first in
\* one list and last in another.
AdapterLists ==
    { << "Scout24Scraper", "ImmoweltScraper" >>, << "ImmonetScraper", "Scout24Scraper" >> }

InitAdapters ==
    /\ now = 0
    /\ listings = { }
    /\ cyc = [c \in Cycles |-> IdleLocals]
    /\ started = [c \in Cycles |-> 0]
    /\ overlap = { }
    /\ log = { }
    /\ scrapers \in AdapterLists
    /\ proc = Up
    /\ soup = NoFetch
    /\ frame = NoScrape
    /\ main = NoMain
    /\ NoCall

\* The interval trigger fires once.
RunTimerCycle == Runs = 0 /\ StartCycle("timer")

\* One cycle whose adapters fetch their pages through get_soup; the store
\* and the transport do not fail.
NextAdapters ==
    \/ RunTimerCycle
    \/ \E c \in Cycles : CallScrape(c)
    \/ FetchPage
    \/ Politeness
    \/ Fetch
    \/ Except
    \/ ReturnNone
    \/ PageFailed
    \/ PageParsed
    \/ ScrapeRaised
    \/ \E c \in Cycles : ScrapeReturns(c)
    \/ \E c \in Cycles : ScrapeRaises(c)
    \/ \E c \in Cycles : CheckDuplicate(c)
    \/ \E c \in Cycles : StoreListing(c)
    \/ \E c \in Cycles : QueryNew(c)
    \/ \E c \in Cycles : SkipListing(c)
    \/ \E c \in Cycles : SendOk(c)
    \/ \E c \in Cycles : Mark(c)
    \/ \E c \in Cycles : Summary(c)

SpecAdapters == InitAdapters /\ [][NextAdapters]_vars

\* ------------------------------------------------- extract_rooms on its own
RoomsChars == { "0", "3", "5", ",", ".", "Z" }

\* The room texts: every short text, and some a card shows.
RoomsTexts ==
    TextsUpTo(RoomsChars, MaxRoomsLen)
    \cup { << "3", ",", "5", " ", "Z", "i", "m", "m", "e", "r" >>,
           << "3", " ", "Z", "i", "m", "m", "e", "r" >>,
           << "2", " ", "Z", "i", ".", " ", "6", "4", ",", "5", " ", "m" >>,
           << "Z", "i", "m", "m", "e", "r" >> }

InitRooms ==
    /\ now = 0
    /\ listings = { }
    /\ cyc = [c \in Cycles |-> IdleLocals]
    /\ started = [c \in Cycles |-> 0]
    /\ overlap = { }
    /\ log = { }
    /\ scrapers = Scrapers
    /\ proc = Up
    /\ soup = NoFetch
    /\ frame = NoScrape
    /\ main = NoMain
    /\ input \in RoomsTexts
    /\ output = None

\* self.extract_rooms(text) returns.
ExtractRoomsCall ==
    /\ output = None
    /\ output' = Some(ExtractRooms(input))
    /\ UNCHANGED << now, listings, cyc, started, overlap, log, scrapers, proc, soup, frame, main, input >>

NextRooms == ExtractRoomsCall

SpecRooms == InitRooms /\ [][NextRooms]_vars

\* ------------------------------------------------------------------ main()
\* The environment variables read at startup that decide how far it gets;
\* each is unset (None) or set to a text.
EnvNames ==
    { "TELEGRAM_BOT_TOKEN", "TELEGRAM_CHAT_ID", "SCRAPE_INTERVAL_MINUTES", "DATABASE_URL" }

\* The values tried for each: unset, empty and set for the credentials; an
\* integer and a text that is none for the interval; a url with either
\* sqlite prefix and a bare path for the database.
EnvValues(name) ==
    CASE name = "TELEGRAM_BOT_TOKEN" -> { None, Some(<< >>), Some(<< "t", "o", "k" >>) }
      [] name = "TELEGRAM_CHAT_ID" -> { None, Some(<< >>), Some(<< "4", "2" >>) }
      [] name = "SCRAPE_INTERVAL_MINUTES" -> { None, Some(<< "1", "5" >>), Some(<< "x" >>) }
      [] OTHER -> { None,
                    Some(<< "sqlite:", "/", "/", "/", "d", "b" >>),
                    Some(<< "sqlite:", "/", "/", "d", "b" >>),
                    Some(<< "d", "b" >>) }

Environments == { e \in [EnvNames -> UNION { EnvValues(n) : n \in EnvNames }] :
                    \A n \in EnvNames : e[n] \in EnvValues(n) }

\* os.getenv(name, default)
Getenv(env, name, default) == IF env[name] = None THEN default ELSE env[name][1]

\* str.startswith(prefix)
StartsWith(text, prefix) ==
    Len(text) >= Len(prefix) /\ SubSeq(text, 1, Len(prefix)) = prefix

\* The path of the database file: the url without its sqlite prefix.
DatabasePath(database_url) ==
    LET sqlite_prefix == << "sqlite:", "/", "/", "/" >>
        short_prefix == << "sqlite:", "/", "/" >>
    IN  IF StartsWith(database_url, sqlite_prefix)
        THEN SubSeq(database_url, Len(sqlite_prefix) + 1, Len(database_url))
        ELSE IF StartsWith(database_url, short_prefix)
        THEN SubSeq(database_url, Len(short_prefix) + 1, Len(database_url))
        ELSE database_url

\* int(raw) on a text of digits and letters: Some(the integer), or None for
\* ValueError.
ParseInt(raw) ==
    IF raw # << >> /\ \A i \in 1..Len(raw) : IsDigit(raw[i]) THEN Some(IntOf(raw)) ELSE None

\* A check of the credentials that only asks whether the variable is set.
IsMissingUnsetOnly(env, name) == env[name] = None

\* `not os.getenv(name, "")`
IsMissing(env, name) == Getenv(env, name, << >>) = << >>

\* _build_config(): Some(the Config), or None when it raises ValueError.
BuildConfig(env) ==
    IF IsMissing(env, "TELEGRAM_BOT_TOKEN") THEN None
    ELSE IF IsMissing(env, "TELEGRAM_CHAT_ID") THEN None
    ELSE IF ParseInt(Getenv(env, "SCRAPE_INTERVAL_MINUTES", << "3", "0" >>)) = None THEN None
    ELSE Some([TELEGRAM_BOT_TOKEN |-> Getenv(env, "TELEGRAM_BOT_TOKEN", << >>),
               TELEGRAM_CHAT_ID |-> Getenv(env, "TELEGRAM_CHAT_ID", << >>),
               DATABASE_PATH |->
                   DatabasePath(Getenv(env, "DATABASE_URL",
                                       << "sqlite:", "/", "/", "/", "data/flats.db" >>)),
               SCRAPE_INTERVAL_MINUTES |->
                   ParseInt(Getenv(env, "SCRAPE_INTERVAL_MINUTES", << "3", "0" >>))[1]])

\* The positional arguments BaseScraper.__init__ takes besides self.
BaseInitParameters == << "base_url" >>

\* The arguments the adapter's __init__ hands to super().__init__.
SuperInitArguments(adapter) ==
    IF adapter = "Scout24Scraper" THEN << "base_url", "proxies" >> ELSE << "base_url" >>

\* The constructor call returns an object; else it raises TypeError.
Constructs(adapter) == Len(SuperInitArguments(adapter)) <= Len(BaseInitParameters)

\* The adapters of the list display that are constructed before one raises.
RECURSIVE ConstructedOf(_)
ConstructedOf(adapters) ==
    IF adapters = << >> \/ ~ Constructs(Head(adapters)) THEN << >>
    ELSE << Head(adapters) >> \o ConstructedOf(Tail(adapters))

\* The process is started in environment env.
Started(env) ==
    [pc |-> "import config", env |-> env, config |-> None, db |-> FALSE,
     adapters |-> << >>, timer |-> None, polling |-> FALSE, error |-> None]

InitBoot ==
    /\ now = 0
    /\ listings = { }
    /\ cyc = [c \in Cycles |-> IdleLocals]
    /\ started = [c \in Cycles |-> 0]
    /\ overlap = { }
    /\ log = { }
    /\ scrapers = << >>
    /\ proc = Up
    /\ soup = NoFetch
    /\ frame = NoScrape
    /\ \E env \in Environments : main = Started(env)
    /\ NoCall

\* `from config import config`: _build_config() runs at import time.  A
\* ValueError ends the process before main() is entered.
ImportConfig ==
    /\ main.pc = "import config"
    /\ main' = IF BuildConfig(main.env) = None
               THEN [main EXCEPT !.pc = "exited", !.error = Some("ValueError")]
               ELSE [main EXCEPT !.pc = "init_db", !.config = BuildConfig(main.env)]
    /\ UNCHANGED << now, listings, cyc, started, overlap, log, scrapers, proc, soup, frame, input, output >>

\* init_db(config.DATABASE_PATH)
InitDb ==
    /\ main.pc = "init_db"
    /\ main' = [main EXCEPT !.pc = "scrapers", !.db = TRUE]
    /\ UNCHANGED << now, listings, cyc, started, overlap, log, scrapers, proc, soup, frame, input, output >>

\* scrapers = [Scout24Scraper(...), ImmoweltScraper(...), ImmonetScraper(...)]:
\* the elements are constructed in order.  A constructor that raises ends
\* main(): nothing catches the TypeError, the list is never bound and the
\* objects constructed before it are dropped.  Nothing of main() after this
\* statement is reached.
ConstructScrapers ==
    /\ main.pc = "scrapers"
    /\ ~ (\A i \in 1..Len(Scrapers) : Constructs(Scrapers[i]))
    /\ main' = [main EXCEPT !.pc = "exited", !.error = Some("TypeError"),
                            !.adapters = ConstructedOf(Scrapers)]
    /\ UNCHANGED << now, listings, cyc, started, overlap, log, scrapers, proc, soup, frame, input, output >>

NextBoot == ImportConfig \/ InitDb \/ ConstructScrapers

SpecBoot == InitBoot /\ [][NextBoot]_vars

\* -------------------------------------- direct store calls during a cycle
\* One cycle of the timer, with clients calling add_listing and
\* mark_notified at any point before, during and after it; the adapters
\* and the transport may fail.
NextMixed ==
    \/ ApiAddListing
    \/ ApiMarkNotified
    \/ RunTimerCycle
    \/ \E c \in Cycles : CycleStep(c)

SpecMixed == Init /\ [][NextMixed]_vars

\* ----------------------------------------------------------------- claims
\* No two rows of the table share a url.
UniqueUrl(table) == Cardinality({ r.url : r \in table }) = Cardinality(table)

TheRow(table, url) == CHOOSE r \in table : r.url = url

\* ---------------------------------------------------------------- C1
\* C1: the listings table holds at most one row per url in every reachable
\* state, overlapping cycles included, and one more add_listing (any record)
\* or mark_notified (any id) from there keeps it so.
C1_OneRowPerUrl ==
    /\ UniqueUrl(listings)
    /\ \A u \in Urls : UniqueUrl(AddListing(listings, ParsedItem(u, 2, now), now))
    /\ \A i \in AnyIds : UniqueUrl(MarkNotified(listings, i, now))

\* Both cycles saw is_duplicate = false for the same url and both called
\* add_listing: more calls were counted than there are rows.
C1_Witness ==
    /\ \A c \in Cycles : cyc[c].pc # "idle" /\ cyc[c].total_new >= 1
    /\ cyc["timer"].total_new + cyc["manual"].total_new > Cardinality(listings)

\* ---------------------------------------------------------------- C2
\* C2: add_listing for a url that is already stored leaves the row's id,
\* created_at and notified_at as they were, for every stored row and every
\* incoming record, and returns that id.
C2_UpsertKeepsIdentity ==
    \A d \in ApiRecords(now) :
        \A r \in RowsOfUrl(listings, d.url) :
            LET after == AddListing(listings, d, now)
            IN  /\ \A q \in RowsOfUrl(after, d.url) :
                       /\ q.id = r.id
                       /\ q.created_at = r.created_at
                       /\ q.notified_at = r.notified_at
                /\ RowsOfUrl(after, d.url) # { }
                /\ AddListingId(listings, d, now) = r.id

\* add_listing has updated a row that was already notified, and another
\* that was not.
C2_Witness ==
    /\ \E r \in listings : r.updated_at > r.created_at /\ r.notified_at # None
    /\ \E r \in listings : r.updated_at > r.created_at /\ r.notified_at = None

\* ---------------------------------------------------------------- C3
\* C3: from a store without r.url, add_listing twice for that url (at now
\* and at a later or equal instant) leaves exactly one row of the url: the
\* first call writes created_at = updated_at = its time, the second keeps
\* created_at, sets updated_at to its own time and overwrites site_id,
\* address, rooms, floor, price, area, description, scraped_at and is_active
\* with its own values; both calls return the same id.
C3_UpsertTwice ==
    \A d1 \in ApiRecords(now) : \A t2 \in { t \in Instants : t >= now } :
      \A d2 \in { d \in ApiRecords(t2) : d.url = d1.url } :
        (~IsDuplicate(listings, d1.url)) =>
            LET s1 == AddListing(listings, d1, now)
                s2 == AddListing(s1, d2, t2)
                r1 == TheRow(s1, d1.url)
                r2 == TheRow(s2, d1.url)
            IN  /\ Cardinality(RowsOfUrl(s1, d1.url)) = 1
                /\ Cardinality(RowsOfUrl(s2, d1.url)) = 1
                /\ Cardinality(s2) = Cardinality(listings) + 1
                /\ r1.created_at = now /\ r1.updated_at = now
                /\ r2.created_at = now /\ r2.updated_at = t2
                /\ r2.site_id = d2.site_id /\ r2.address = d2.address
                /\ r2.rooms = d2.rooms /\ r2.floor = d2.floor
                /\ r2.price = d2.price /\ r2.area = d2.area
                /\ r2.description = d2.description
                /\ r2.scraped_at = ScrapedAtOf(d2, t2)
                /\ r2.is_active = IsActiveOf(d2)
                /\ AddListingId(listings, d1, now) = AddListingId(s1, d2, t2)
                /\ AddListingId(s1, d2, t2) = r2.id

\* add_listing was called for u1 at hour 0 and again at hour 12 with other
\* details: one row, created at 0, updated at 12, holding the second call's
\* values.
C3_Witness ==
    \E r \in listings :
        /\ r.url = "u1" /\ r.created_at = 0 /\ r.updated_at = 12
        /\ r.site_id = "sid_c" /\ r.is_active = 0 /\ r.scraped_at = 12
        /\ r.description = Some(<< "K" >>)
        /\ Cardinality(RowsOfUrl(listings, "u1")) = 1

\* The row the sweep of thread c is at.
Current(c) == cyc[c].new_listings[cyc[c].j]

\* The logged calls of one operation on one row with one result.
Events(op, id, ok) == { e \in log : e.op = op /\ e.id = id /\ e.ok = ok }

SweepPcs == { "notify", "mark_notified", "summary" }

\* ---------------------------------------------------------------- C4
\* C4: a send is attempted only for a row of the cycle's get_new_listings
\* result for which apply_filters and should_notify hold at that moment;
\* mark_notified is called only right after send_notification returned true
\* for the same row in the same cycle; a row with notified_at set has a
\* successful send behind it.
C4_SendGuarded ==
    /\ [](/\ \A c \in Cycles :
               cyc[c].pc = "mark_notified" =>
                   \E f \in Events("send", Current(c).id, TRUE) : f.run = cyc[c].run
          /\ \A e \in log :
               e.op = "mark" =>
                   \E f \in Events("send", e.id, TRUE) : f.run = e.run
          /\ \A r \in listings :
               r.notified_at # None => Events("send", r.id, TRUE) # { })
    /\ [][\A e \in log' \ log :
            /\ e.op = "send" =>
                 \E c \in Cycles :
                     /\ cyc[c].run = e.run /\ cyc[c].pc = "notify"
                     /\ Current(c).id = e.id
                     /\ \E i \in 1..Len(cyc[c].new_listings) :
                            cyc[c].new_listings[i] = Current(c)
                     /\ ApplyFilters(Current(c), DEFAULT_CRITERIA)
                     /\ ShouldNotify(Current(c), NOTIFY_HOURS, now)
            /\ e.op = "mark" =>
                 \E c \in Cycles :
                     /\ cyc[c].run = e.run /\ cyc[c].pc = "mark_notified"
                     /\ Current(c).id = e.id]_vars

\* A sweep over two rows: the first does not match the criteria and was not
\* sent, the second was sent and is about to be marked.
C4_Witness ==
    \E c \in Cycles :
        /\ cyc[c].pc = "mark_notified" /\ cyc[c].j = 2
        /\ ~ApplyFilters(cyc[c].new_listings[1], DEFAULT_CRITERIA)
        /\ \A e \in log : e.id # cyc[c].new_listings[1].id
        /\ \E r \in listings : r.notified_at # None

\* ---------------------------------------------------------------- C5
\* C5: with cycles one at a time and a store that never fails, every row is
\* sent successfully at most once over the whole execution and its
\* notified_at is written at most once, and exactly once as soon as the
\* cycle that sent it has moved on.
C5_NotifiedOnce ==
    \A r \in listings :
        /\ Cardinality(Events("send", r.id, TRUE)) <= 1
        /\ Cardinality(Events("mark", r.id, TRUE)) <= Cardinality(Events("send", r.id, TRUE))
        /\ Events("mark", r.id, FALSE) = { }
        /\ (Events("send", r.id, TRUE) # { } /\ Events("mark", r.id, TRUE) = { }) =>
               \E c \in Cycles : cyc[c].pc = "mark_notified" /\ Current(c).id = r.id
        /\ (r.notified_at # None) <=> (Events("mark", r.id, TRUE) # { })

\* Row 1 was sent and marked by the first cycle; a later cycle has run its
\* sweep at the same hour, with the row still inside the window, and has
\* sent nothing again.
C5_Witness ==
    /\ now = 0
    /\ Events("send", 1, TRUE) # { } /\ Events("mark", 1, TRUE) # { }
    /\ \E c \in Cycles : cyc[c].run = 2 /\ cyc[c].pc = "summary"

\* ---------------------------------------------------------------- C6
\* C6: a row is sent successfully twice only by two different cycles, and
\* then the two cycles overlapped or a mark_notified for the row failed; no
\* cycle sends a row twice, and no row is marked more often than sent.
C6_DoubleSendNeedsOverlap ==
    /\ \A e \in log : e.n = 1
    /\ \A e \in log : \A f \in log :
         (e.op = "send" /\ f.op = "send" /\ e.ok /\ f.ok /\ e.id = f.id /\ e # f) =>
             /\ e.run # f.run
             /\ \/ { e.run, f.run } \in overlap
                \/ Events("mark", e.id, FALSE) # { }
    /\ \A r \in listings :
         Cardinality(Events("mark", r.id, TRUE)) <= Cardinality(Events("send", r.id, TRUE))

\* The timer's cycle and the trigger_now cycle overlap, both hold the same
\* unnotified row, both have sent it and neither has marked it yet: both are
\* about to call mark_notified for its id.
C6_Witness ==
    /\ cyc["timer"].pc = "mark_notified" /\ cyc["manual"].pc = "mark_notified"
    /\ Current("timer").id = Current("manual").id
    /\ Current("timer").notified_at = None /\ Current("manual").notified_at = None
    /\ Cardinality(Events("send", Current("timer").id, TRUE)) = 2
    /\ Events("mark", Current("timer").id, TRUE) = { }
    /\ Events("mark", Current("timer").id, FALSE) = { }
    /\ \A r \in listings : r.notified_at = None

\* ---------------------------------------------------------------- C7
\* C7: when the transport fails for a row, nothing is raised into the cycle:
\* the table is left as it is (no mark_notified, notified_at stays null),
\* nothing is counted as notified and the sweep goes on to the next row.  The
\* next get_new_listings returns every unnotified row scraped inside the
\* window, and a sweep that comes to a row whose send failed before, while
\* the row is still inside the window, attempts the send again.
C7_TransportFailureRetried ==
    [][/\ \A e \in log' \ log :
            (e.op = "send" /\ ~e.ok) =>
                \E c \in Cycles :
                    /\ cyc[c].run = e.run /\ cyc[c].pc = "notify" /\ Current(c).id = e.id
                    /\ listings' = listings
                    /\ cyc'[c].pc \in { "notify", "summary" }
                    /\ cyc'[c].total_notified = cyc[c].total_notified
                    /\ cyc[c].j < Len(cyc[c].new_listings) =>
                           /\ cyc'[c].pc = "notify"
                           /\ cyc'[c].j = cyc[c].j + 1
                           /\ cyc'[c].new_listings = cyc[c].new_listings
       /\ \A c \in Cycles :
            (cyc[c].pc = "get_new_listings" /\ cyc'[c].pc \in SweepPcs) =>
                \A r \in listings :
                    (r.notified_at = None /\ r.scraped_at > now - SINCE_HOURS) =>
                        \E i \in 1..Len(cyc'[c].new_listings) : cyc'[c].new_listings[i] = r
       /\ \A c \in Cycles :
            (/\ cyc[c].pc = "notify" /\ cyc'[c] # cyc[c]
             /\ Events("send", Current(c).id, FALSE) # { }
             /\ Current(c).scraped_at > now - NOTIFY_HOURS) =>
                \E e \in log' \ log :
                    e.op = "send" /\ e.id = Current(c).id /\ e.run = cyc[c].run]_vars

\* The send of a row scraped at hour 0 failed in the first cycle; the second
\* cycle, at hour 12, has sent it again, with success.
C7_Witness ==
    \E c \in Cycles :
        /\ cyc[c].run = 2 /\ cyc[c].pc = "mark_notified" /\ now = 12
        /\ Current(c).scraped_at = 0
        /\ \E e \in Events("send", Current(c).id, FALSE) : e.run = 1
        /\ \E e \in Events("send", Current(c).id, TRUE) : e.run = 2

\* ---------------------------------------------------------------- C8
\* C8: (store never failing) when scrape() of an adapter raises, the adapter
\* is not counted and nothing is stored, the next adapter in list order is
\* called, and after the last adapter the sweep starts; adapters are called
\* one after the other in list order, and in the sweep the scraped-adapter
\* count is the number of adapters that did not raise.
C8_AdapterFailureTolerated ==
    /\ [](\A c \in Cycles :
            /\ cyc[c].pc \in { "scrape", "is_duplicate", "add_listing" } =>
                   /\ cyc[c].scraper \in 1..Len(Scrapers)
                   /\ cyc[c].total_scraped + cyc[c].failed = cyc[c].scraper - 1
            /\ cyc[c].pc \in { "get_new_listings" } \cup SweepPcs =>
                   cyc[c].total_scraped + cyc[c].failed = Len(Scrapers))
    /\ [][\A c \in Cycles :
            /\ (cyc[c].pc = "scrape" /\ cyc'[c].failed = cyc[c].failed + 1) =>
                   /\ cyc'[c].total_scraped = cyc[c].total_scraped
                   /\ cyc'[c].total_new = cyc[c].total_new
                   /\ listings' = listings
                   /\ IF cyc[c].scraper < Len(Scrapers)
                      THEN cyc'[c].pc = "scrape" /\ cyc'[c].scraper = cyc[c].scraper + 1
                      ELSE cyc'[c].pc = "get_new_listings"
            /\ (cyc[c].pc # "idle" /\ cyc'[c].pc # "idle"
                /\ cyc'[c].scraper # cyc[c].scraper) =>
                   cyc'[c].scraper = cyc[c].scraper + 1 /\ cyc'[c].pc = "scrape"]_vars

\* The first two adapters raised; the third was called all the same and has
\* returned a list.
C8_Witness ==
    \E c \in Cycles :
        /\ cyc[c].pc = "is_duplicate" /\ cyc[c].scraper = 3
        /\ cyc[c].failed = 2 /\ cyc[c].total_scraped = 0

\* ---------------------------------------------------------------- C9
\* C9: a persistence error raised by is_duplicate, add_listing,
\* get_new_listings or mark_notified during a cycle leaves run_scrape_cycle
\* and ends the cycle.
C9_StoreErrorEndsCycle ==
    [][\A c \in Cycles : StoreError(c) => cyc'[c].pc = "idle"]_vars

\* ---------------------------------------------------------------- C10
\* C10: in cycles that run one at a time, is_duplicate sends a record on to
\* add_listing exactly when its url is not stored at that moment; every
\* add_listing that returns inserts one row of that url; total_new grows by
\* the number of rows inserted; and no step changes anything but
\* notified_at in a row that is already stored.
C10_OnlyNewUrlsAdded ==
    [][/\ \A c \in Cycles :
            /\ (cyc[c].pc # "idle" /\ cyc'[c].pc # "idle") =>
                   cyc'[c].total_new - cyc[c].total_new
                       = Cardinality(listings') - Cardinality(listings)
            /\ (cyc[c].pc = "is_duplicate" /\ cyc'[c] # cyc[c]
                /\ cyc'[c].failed = cyc[c].failed) =>
                   (cyc'[c].pc = "add_listing"
                       <=> RowsOfUrl(listings, cyc[c].listings[cyc[c].k].url) = { })
            /\ (cyc[c].pc = "add_listing" /\ cyc'[c] # cyc[c]
                /\ cyc'[c].failed = cyc[c].failed) =>
                   LET url == cyc[c].listings[cyc[c].k].url
                   IN  /\ RowsOfUrl(listings, url) = { }
                       /\ Cardinality(RowsOfUrl(listings', url)) = 1
                       /\ listings' = listings \cup RowsOfUrl(listings', url)
       /\ \A r \in listings :
            \E q \in listings' : q = [r EXCEPT !.notified_at = q.notified_at]]_vars

\* The first cycle has stored u1 and u2 from the first adapter's list; the
\* third adapter returns u1 again, which is_duplicate is about to find.
C10_Witness ==
    \E c \in Cycles :
        /\ cyc[c].run = 1 /\ cyc[c].pc = "is_duplicate" /\ cyc[c].scraper = 3
        /\ cyc[c].total_new = 2 /\ Cardinality(listings) = 2
        /\ RowsOfUrl(listings, cyc[c].listings[cyc[c].k].url) # { }

\* ---------------------------------------------------------------- C11
\* The one cycle is over.
E2EDone == Runs = 1 /\ AllIdle

\* What the cycle is said to leave behind: one new row (that of u2) next to
\* the stored one, one send attempt, one notified_at written.
E2EOutcome ==
    /\ Cardinality(listings) = 2
    /\ Cardinality(RowsOfUrl(listings, "u1")) = 1
    /\ Cardinality(RowsOfUrl(listings, "u2")) = 1
    /\ Cardinality({ e \in log : e.op = "send" }) = 1
    /\ Cardinality({ e \in log : e.op = "mark" /\ e.ok }) = 1

\* No stored row is waiting for its notification: each is notified already,
\* or does not match the criteria, or was scraped at or before now - 24h.
StoredSettled ==
    \A r \in listings :
        \/ r.notified_at # None
        \/ ~ApplyFilters(r, DEFAULT_CRITERIA)
        \/ ~(r.scraped_at > now - SINCE_HOURS)

EffectiveOf(criteria, key) ==
    IF key \in DOMAIN criteria THEN criteria[key] ELSE DEFAULT_CRITERIA[key]

\* Criteria that reject none of FilterListings.
Permissive ==
    [min_rooms |-> 0, max_rooms |-> 5, min_floor |-> 0, max_price |-> 1501,
     areas |-> << >>, exclude_keywords |-> << >>]

\* The criteria with every clause but those of `keys` made permissive.
OnlyClause(criteria, keys) ==
    [k \in DOMAIN DEFAULT_CRITERIA |->
        IF k \in keys THEN EffectiveOf(criteria, k) ELSE Permissive[k]]

\* The three numeric clauses, as the claims word them.
RoomsOutside(l, c) ==
    l.rooms # None
    /\ (l.rooms[1] < EffectiveOf(c, "min_rooms") \/ l.rooms[1] > EffectiveOf(c, "max_rooms"))

FloorBelow(l, c) == l.floor # None /\ l.floor[1] < EffectiveOf(c, "min_floor")

PriceAbove(l, c) == l.price # None /\ l.price[1] > EffectiveOf(c, "max_price")

\* Two characters that are the same letter, whatever their case.
SameLetter(x, y) ==
    \/ x = y
    \/ { x, y } \in { { "A", "a" }, { "B", "b" }, { "C", "c" }, { "D", "d" }, { "E", "e" },
                      { "G", "g" }, { "H", "h" }, { "K", "k" }, { "O", "o" }, { "R", "r" },
                      { "S", "s" } }

\* sub occurs in text as a substring, case-insensitively.
Occurs(sub, text) ==
    \E i \in 0..(Len(text) - Len(sub)) :
        \A k \in 1..Len(sub) : SameLetter(text[i + k], sub[k])

\* An absent text read as the empty string.
TextOf(opt) == IF opt = None THEN << >> ELSE opt[1]

\* ---------------------------------------------------------------- C12
\* C12: whatever the criteria, a record whose fields read by a clause are
\* all absent is not rejected by that clause (rooms; floor; price; area and
\* address for the areas clause; description and address for the keywords
\* clause), and a record with all six fields absent matches.
C12_AbsentNeverRejected ==
    output # None =>
        LET l == input.listing
            c == input.criteria
        IN  /\ l.rooms = None => ApplyFilters(l, OnlyClause(c, { "min_rooms", "max_rooms" }))
            /\ l.floor = None => ApplyFilters(l, OnlyClause(c, { "min_floor" }))
            /\ l.price = None => ApplyFilters(l, OnlyClause(c, { "max_price" }))
            /\ (l.area = None /\ l.address = None) =>
                   ApplyFilters(l, OnlyClause(c, { "areas" }))
            /\ (l.description = None /\ l.address = None) =>
                   ApplyFilters(l, OnlyClause(c, { "exclude_keywords" }))
            /\ (\A f \in DOMAIN l : l[f] = None) => output[1] = TRUE

\* ---------------------------------------------------------------- C13
\* C13: with the criteria keys that are not supplied taken from the service
\* defaults, apply_filters returns false when rooms is present and below
\* min_rooms or above max_rooms, when floor is present and below min_floor,
\* and when price is present and above max_price; a record none of this
\* holds for (rooms = min_rooms, rooms = max_rooms, floor = min_floor, floor
\* 99 under min_floor 99, price = max_price, absent fields) is returned true
\* when the areas and keyword lists are empty.
C13_NumericBounds ==
    output # None =>
        LET l == input.listing
            c == input.criteria
        IN  /\ RoomsOutside(l, c) => output[1] = FALSE
            /\ FloorBelow(l, c) => output[1] = FALSE
            /\ PriceAbove(l, c) => output[1] = FALSE
            /\ (/\ ~RoomsOutside(l, c) /\ ~FloorBelow(l, c) /\ ~PriceAbove(l, c)
                /\ EffectiveOf(c, "areas") = << >>
                /\ EffectiveOf(c, "exclude_keywords") = << >>) => output[1] = TRUE

\* A record on three boundaries at once has passed: rooms at the default
\* max_rooms, the attic floor 99 under min_floor 99, price at the default
\* max_price.
C13_Witness ==
    /\ output = Some(TRUE)
    /\ input.listing.rooms = Some(4) /\ input.listing.floor = Some(99)
    /\ input.listing.price = Some(1500)
    /\ DOMAIN input.criteria = { "min_floor" } /\ input.criteria.min_floor = 99

WrittenAs(t) == { dt \in WrittenDatetimes : IsoFormat(dt) = t }

\* C15: should_notify is false when notified_at is set, whatever scraped_at
\* is; otherwise false when scraped_at is missing, empty or not a timestamp;
\* otherwise, for the text of a datetime d, true exactly when d is at or
\* after now - hours, a d without timezone being taken as UTC (hours = 24:
\* false at 25 hours ago, true at 23 hours and at exactly 24 hours ago).  On
\* UTC stamps on the hour it agrees with the hour-count form the cycle uses.
C15_ShouldNotify ==
    output # None =>
        LET l == input.listing
            cutoff == 10 * (now - input.hours) + input.tenth
        IN  /\ l.notified_at # None => output[1] = FALSE
            /\ (l.scraped_at = None \/ l.scraped_at = Some(<< >>)) => output[1] = FALSE
            /\ (l.scraped_at # None /\ l.scraped_at # Some(<< >>)
                /\ WrittenAs(l.scraped_at[1]) = { }) => output[1] = FALSE
            /\ l.notified_at = None =>
                 \A dt \in WrittenDatetimes :
                     l.scraped_at = Some(IsoFormat(dt)) =>
                         LET offset == IF dt.tzinfo = None THEN 0 ELSE dt.tzinfo[1]
                             at == 10 * (dt.hour - offset) + dt.tenth
                         IN  /\ output[1] <=> at >= cutoff
                             /\ (dt.tenth = 0 /\ input.tenth = 0 /\ offset = 0) =>
                                    output[1] = ShouldNotify(
                                        [notified_at |-> None, scraped_at |-> dt.hour],
                                        input.hours, now)

\* should_notify has returned true for an unnotified dict whose scraped_at
\* is a text without timezone written exactly 24 hours before the clock
\* reading, past the hour.
C15_Witness ==
    /\ output = Some(TRUE)
    /\ input.hours = 24 /\ input.tenth = 5 /\ now = 40
    /\ input.listing.notified_at = None
    /\ input.listing.scraped_at = Some(<< "1", "6", ".", "5" >>)

\* ---------------------------------------------------------------- C16
\* A text that is one plain run of digits.
IsDigitRun(text) == text # << >> /\ \A i \in 1..Len(text) : IsDigit(text[i])

\* C16: extract_price("1.200,50 EUR") is 1200.50, extract_price("1500 EUR")
\* is 1500.0, extract_price("") is none, and for every plain run of four or
\* more digits the result is the integer the digits denote.
C16_ExtractPrice ==
    output # None =>
        /\ input = << "1", ".", "2", "0", "0", ",", "5", "0", " ", "€" >> =>
               output[1] = Some(Float(120050, 2))
        /\ input = << "1", "5", "0", "0", " ", "€" >> => output[1] = Some(Float(1500, 0))
        /\ input = << >> => output[1] = None
        /\ (IsDigitRun(input) /\ Len(input) >= 4) =>
               output[1] = Some(Float(IntOf(input), 0))

\* ---------------------------------------------------------------- C17
\* The text is "eg", in any case, with nothing but blanks around it.
IsTrimmedEG(text) ==
    \E i \in 1..Len(text) :
        /\ i < Len(text)
        /\ SameLetter(text[i], "e") /\ SameLetter(text[i + 1], "g")
        /\ \A k \in 1..Len(text) : k \notin { i, i + 1 } => text[k] \in { " ", "nbsp" }

\* The number written by the first digits of the text, when it has any.
FirstNumber(text) ==
    LET first == CHOOSE i \in 1..Len(text) :
                     IsDigit(text[i]) /\ \A k \in 1..(i - 1) : ~IsDigit(text[k])
        last == CHOOSE j \in first..Len(text) :
                    /\ \A k \in first..j : IsDigit(text[k])
                    /\ j = Len(text) \/ ~IsDigit(text[j + 1])
    IN  IntOf(SubSeq(text, first, last))

\* C17: extract_floor gives 0 when the text contains "erdgeschoss" (in any
\* case) or is "eg" once trimmed; else 99 when it contains "dg" or
\* "dachgeschoss", a number in the text notwithstanding; else the first
\* integer of the text; else none.  "Erdgeschoss" gives 0, "4. OG" gives 4,
\* "Dachgeschoss" gives 99 and the empty text none.
C17_ExtractFloor ==
    output # None =>
        LET ground == \/ Occurs(<< "e", "r", "d", "g", "e", "s", "c", "h", "o", "s", "s" >>, input)
                      \/ IsTrimmedEG(input)
            attic == \/ Occurs(<< "d", "g" >>, input)
                     \/ Occurs(<< "d", "a", "c", "h", "g", "e", "s", "c", "h", "o", "s", "s" >>,
                               input)
            number == \E i \in 1..Len(input) : IsDigit(input[i])
        IN  /\ output[1] = IF ground THEN Some(0)
                           ELSE IF attic THEN Some(99)
                           ELSE IF number THEN Some(FirstNumber(input))
                           ELSE None
            /\ input = << "E", "r", "d", "g", "e", "s", "c", "h", "o", "s", "s" >> =>
                   output[1] = Some(0)
            /\ input = << "4", ".", " ", "O", "G" >> => output[1] = Some(4)
            /\ input = << "D", "a", "c", "h", "g", "e", "s", "c", "h", "o", "s", "s" >> =>
                   output[1] = Some(99)
            /\ input = << >> => output[1] = None

\* extract_floor has returned 99 for "3. OG (DG)": the attic rule has won
\* over the floor number in the text.
C17_Witness ==
    /\ output = Some(Some(99))
    /\ input = << "3", ".", " ", "O", "G", " ", "(", "D", "G", ")" >>

\* ---------------------------------------------------------------- C18
\* C18: once the shutdown handler has run scheduler.stop(), the timer starts
\* no further cycle, and no cycle that was in flight then, be it the timer's
\* or that of trigger_now, is terminated by force: none is cut off before
\* its own end.
C18_ShutdownSparesCycles ==
    /\ [](proc.killed = { })
    /\ [][proc.state # "running" => started' = started]_vars

\* ---------------------------------------------------------------- C19
\* C19: get_new_listings returns exactly the stored rows with notified_at
\* null whose scraped_at was written from an instant strictly later than
\* now - 24h, whether the text was written with a timezone (Scout24) or
\* without (Immowelt, Immonet): no other row is returned and none of these
\* is left out.  On UTC stamps on the hour the query agrees with the
\* hour-count form the cycle uses.
C19_GetNewListingsExact ==
    output # None =>
        LET returned == { output[1][i] : i \in 1..Len(output[1]) }
            cutoff == 10 * (now - SINCE_HOURS) + input.tenth
        IN  /\ returned \subseteq input.table
            /\ Len(output[1]) = Cardinality(returned)
            /\ \A r \in input.table : \A dt \in AdapterDatetimes :
                 r.scraped_at = IsoFormat(dt) =>
                     /\ r \in returned <=>
                            (10 * dt.hour + dt.tenth > cutoff /\ r.notified_at = None)
                     /\ (dt.tenth = 0 /\ input.tenth = 0 /\ r.notified_at = None) =>
                            (r \in returned <=>
                                 NewListingRows({ [scraped_at |-> dt.hour, notified_at |-> None] },
                                                SINCE_HOURS, now) # { })

\* The query, read at hour 40 and a half, has left out the unnotified row
\* written without timezone at hour 16 and a half (it stands exactly on the
\* cutoff) and has returned the row written with timezone at hour 17.
C19_Witness ==
    /\ output # None /\ now = 40 /\ input.tenth = 5
    /\ Len(output[1]) = 1
    /\ output[1][1].scraped_at = << "1", "7", "+", "0" >>
    /\ \E r \in input.table :
         r.scraped_at = << "1", "6", ".", "5" >> /\ r.notified_at = None

\* ---------------------------------------------------------------- C20
\* The requests a get_soup call has made, in order.
Gets == SelectSeq(soup.trace, LAMBDA e : e.op = "get")

\* C20: get_soup with the default retries makes at most 3 requests; every
\* request comes right after a politeness delay of 2 to 3 seconds; a request
\* that succeeds is the last thing the call does and the call returns its
\* page; after the first failed request the call sleeps 1s, after the second
\* 2s, and after the third nothing; and the call returns None only when 3
\* requests were made and each failed with a request error.
C20_GetSoup ==
    LET trace == soup.trace
        n == Len(trace)
    IN  /\ Len(Gets) <= 3
        /\ \A k \in 1..n :
             /\ trace[k].op = "get" =>
                   /\ k > 1
                   /\ trace[k - 1].op = "sleep"
                   /\ trace[k - 1].tenths \in 20..30
                   /\ k = 2 \/ trace[k - 2].op = "sleep"
                   /\ ~ IsRequestException(trace[k].outcome) => k = n
                   /\ trace[k].outcome = "ok" =>
                         soup.pc = "returned" /\ soup.result = Some("page")
             /\ (trace[k].op = "get" /\ IsRequestException(trace[k].outcome) /\ k < n) =>
                   /\ k \in { 2, 5 }
                   /\ trace[k + 1] = Slept(IF k = 2 THEN 10 ELSE 20)
             /\ (trace[k].op = "sleep" /\ k < n /\ trace[k + 1].op = "sleep") =>
                   /\ trace[k].tenths = (IF k = 3 THEN 10 ELSE 20)
                   /\ trace[k - 1].op = "get"
        /\ n >= 1 => trace[1].op = "sleep"
        /\ (n >= 1 /\ trace[n].op = "get" /\ IsRequestException(trace[n].outcome)) =>
               \/ soup.pc = "except"
               \/ n = 8
        /\ (soup.pc = "returned" /\ soup.result = None) =>
               /\ Len(Gets) = 3
               /\ \A i \in 1..3 : IsRequestException(Gets[i].outcome)
               /\ trace[n].op = "get"
        /\ (soup.pc = "returned" /\ soup.result # None) =>
               /\ trace[n] = Got("ok")
               /\ \A i \in 1..(Len(Gets) - 1) : Gets[i].outcome # "ok"

\* A call has returned None: it slept 1s after the first failure and 2s
\* after the second, and returned right after the third.
C20_Witness ==
    /\ soup.pc = "returned" /\ soup.result = None
    /\ Len(soup.trace) = 8
    /\ soup.trace[3] = Slept(10) /\ soup.trace[6] = Slept(20)
    /\ soup.trace[8] = Got("http_error")

\* ---------------------------------------------------------------- C21
\* The pages get_soup was called for, in call order.
Fetched == [i \in 1..Len(frame.seen) |-> frame.seen[i].page_num]
           \o (IF frame.pc = "soup" THEN << frame.page_num >> ELSE << >>)

\* C21: in one scrape() call the pages fetched are 1, 2, ... in this order
\* and at most 3; a page whose fetch failed or that showed no card is the
\* last page fetched; and when scrape() returns, its list is the records of
\* the pages fetched, in page order, those before a failed or empty page
\* included.
C21_PagesInOrder ==
    /\ Len(Fetched) <= 3
    /\ \A i \in 1..Len(Fetched) : Fetched[i] = i
    /\ \A i \in 1..Len(frame.seen) :
         (~ frame.seen[i].fetched \/ frame.seen[i].items = << >>) =>
             /\ i = Len(Fetched)
             /\ frame.pc = "returned"
    /\ frame.pc = "returned" =>
         \A i \in 0..Len(frame.seen) :
             \A k \in 1..Len(frame.listings) :
                 LET before == SumOver([j \in 1..Len(frame.seen) |->
                                           Len(frame.seen[j].records)], 1..i)
                 IN  (i < Len(frame.seen) /\ before < k
                      /\ k <= before + Len(frame.seen[i + 1].records)) =>
                         frame.listings[k] = frame.seen[i + 1].records[k - before]
    /\ frame.pc = "returned" =>
         Len(frame.listings) =
             SumOver([j \in 1..Len(frame.seen) |-> Len(frame.seen[j].records)],
                     1..Len(frame.seen))

\* scrape() has returned the record of page 1 although the fetch of page 2
\* failed.
C21_Witness ==
    /\ frame.pc = "returned"
    /\ Len(frame.seen) = 2
    /\ frame.seen[1].records # << >>
    /\ ~ frame.seen[2].fetched
    /\ frame.listings = frame.seen[1].records

\* ---------------------------------------------------------------- C22
\* Every attempt get_soup has made so far failed with a request error, and
\* none is left.
AllAttemptsFailed ==
    /\ Len(Gets) = DEFAULT_RETRIES + 1
    /\ \A i \in 1..Len(Gets) : IsRequestException(Gets[i].outcome)

\* scrape() has returned after the fetch of page 1 failed.
ReturnedAfterPage1Failed ==
    /\ frame.pc = "returned"
    /\ Len(frame.seen) = 1
    /\ ~ frame.seen[1].fetched

\* C22: when every attempt to fetch page 1 has failed, get_soup returns None
\* and scrape() returns the empty list, no exception leaves either of them;
\* the cycle then counts the adapter as scraped (total_scraped + 1, nothing
\* counted as failed or new), leaves the store as it is and goes on to the
\* next adapter, or to the sweep after the last one.
C22_Page1FailureIsEmptyResult ==
    /\ []((frame.pc = "soup" /\ frame.page_num = 1 /\ AllAttemptsFailed) =>
             /\ soup.pc \in { "except", "for", "returned" }
             /\ soup.pc = "returned" => soup.result = None)
    /\ [](ReturnedAfterPage1Failed => frame.listings = << >>)
    /\ [][(frame.pc = "soup" /\ frame.page_num = 1 /\ AllAttemptsFailed
           /\ soup.pc = "returned") =>
              /\ frame'.pc = "returned"
              /\ frame'.listings = << >>
              /\ cyc' = cyc /\ listings' = listings]_vars
    /\ [][ReturnedAfterPage1Failed =>
              LET l == cyc["timer"]
                  m == cyc'["timer"]
              IN  /\ l.pc = "scraping"
                  /\ m.total_scraped = l.total_scraped + 1
                  /\ m.failed = l.failed
                  /\ m.total_new = l.total_new
                  /\ listings' = listings
                  /\ IF l.scraper < Len(scrapers)
                     THEN m.pc = "scrape" /\ m.scraper = l.scraper + 1
                     ELSE m.pc = "get_new_listings"]_vars

\* The first adapter was counted as scraped and nothing was stored; the
\* cycle has gone on to the second adapter, whose scrape() has returned
\* after the fetch of its page 1 failed.
C22_Witness ==
    /\ ReturnedAfterPage1Failed
    /\ cyc["timer"].pc = "scraping"
    /\ cyc["timer"].scraper = 2
    /\ cyc["timer"].total_scraped = 1
    /\ cyc["timer"].failed = 0
    /\ listings = { }

\* ---------------------------------------------------------------- C23
\* Positions a..b of the text hold a whole run of digits.
IsNumeralAt(text, a, b) ==
    /\ 1 <= a /\ a <= b /\ b <= Len(text)
    /\ \A k \in a..b : IsDigit(text[k])
    /\ a = 1 \/ ~IsDigit(text[a - 1])
    /\ b = Len(text) \/ ~IsDigit(text[b + 1])

\* A decimal numeral starts at a: digits up to b, "," or ".", a digit.
IsDecimalAt(text, a, b) ==
    /\ IsNumeralAt(text, a, b)
    /\ b + 2 <= Len(text)
    /\ text[b + 1] \in { ",", "." }
    /\ IsDigit(text[b + 2])

\* The number the digits at a..b write, read from the left.
RECURSIVE NumberAt(_, _, _)
NumberAt(text, a, b) ==
    IF a > b THEN 0
    ELSE DigitOf(text[a]) * Pow10(b - a) + NumberAt(text, a + 1, b)

\* C23: when the text holds a decimal numeral, extract_rooms gives the
\* integer part of the first one, an integer earlier in the text
\* notwithstanding; else it gives the first integer of the text; a text
\* without digits and the empty text give none.  "3,5 Zimmer" gives 3.
C23_ExtractRooms ==
    output # None =>
        LET n == Len(input)
            decimals == { << a, b >> \in (1..n) \X (1..n) : IsDecimalAt(input, a, b) }
            numerals == { << a, b >> \in (1..n) \X (1..n) : IsNumeralAt(input, a, b) }
        IN  /\ decimals # { } =>
                  \E d \in decimals :
                      /\ \A e \in decimals : d[1] <= e[1]
                      /\ output[1] = Some(NumberAt(input, d[1], d[2]))
            /\ (decimals = { } /\ numerals # { }) =>
                  \E d \in numerals :
                      /\ \A e \in numerals : d[1] <= e[1]
                      /\ output[1] = Some(NumberAt(input, d[1], d[2]))
            /\ numerals = { } => output[1] = None
            /\ input = << "3", ",", "5", " ", "Z", "i", "m", "m", "e", "r" >> =>
                  output[1] = Some(3)

\* extract_rooms has returned 64 for "2 Zi. 64,5 m": the decimal numeral has
\* won over the integer before it.
C23_Witness ==
    /\ input = << "2", " ", "Z", "i", ".", " ", "6", "4", ",", "5", " ", "m" >>
    /\ output = Some(Some(64))

\* ---------------------------------------------------------------- C24
\* The bot token or the chat id is unset or empty.
CredentialsMissing ==
    \E name \in { "TELEGRAM_BOT_TOKEN", "TELEGRAM_CHAT_ID" } :
        main.env[name] = None \/ main.env[name] = Some(<< >>)

\* C24: when the bot token or the chat id is unset or empty, startup ends
\* with an error at the configuration and nothing has acted: the store is
\* not initialised, no adapter is constructed, the timer is not armed, the
\* chat polling does not run and no cycle has started or runs.
C24_MissingCredentialsFailFast ==
    (main.pc # "none" /\ CredentialsMissing) =>
        /\ main.pc \in { "import config", "exited" }
        /\ main.pc = "exited" => main.error = Some("ValueError")
        /\ main.config = None
        /\ ~ main.db
        /\ main.adapters = << >>
        /\ scrapers = << >>
        /\ main.timer = None
        /\ ~ main.polling
        /\ \A c \in Cycles : started[c] = 0 /\ cyc[c].pc = "idle"
        /\ listings = { }

\* Startup has ended with ValueError: the token is set, the chat id is
\* empty.
C24_Witness ==
    /\ main.pc = "exited"
    /\ main.error = Some("ValueError")
    /\ main.env["TELEGRAM_BOT_TOKEN"] # None /\ main.env["TELEGRAM_BOT_TOKEN"] # Some(<< >>)
    /\ main.env["TELEGRAM_CHAT_ID"] = Some(<< >>)

\* ---------------------------------------------------------------- C25
\* The credentials are set and nothing else is.
ValidDefaultEnvironment ==
    /\ main.pc # "none"
    /\ ~ CredentialsMissing
    /\ main.env["SCRAPE_INTERVAL_MINUTES"] = None
    /\ main.env["DATABASE_URL"] = None

\* C25: with valid credentials and the default configuration, startup does
\* not end before the store is initialised, the three adapters are in the
\* adapter list, the timer is armed with the configured interval and the
\* chat polling runs.
C25_StartupReachesRunning ==
    (ValidDefaultEnvironment /\ main.pc = "exited") =>
        /\ main.error = None
        /\ main.db
        /\ main.adapters = Scrapers
        /\ main.timer = Some(30)
        /\ main.polling

\* ---------------------------------------------------------------- C26
\* No step changes scraped_at of a row that is stored.
ScrapedAtKept ==
    \A r \in listings : \A q \in listings' : q.id = r.id => q.scraped_at = r.scraped_at

\* No step sends a row that was first stored more than 24 hours ago.
OldRowsNotSent ==
    \A e \in log' \ log :
        e.op = "send" => \A r \in listings : r.id = e.id => ~ (r.created_at < now - 24)

\* A step that changes scraped_at of a stored row is the add_listing of a
\* cycle that was in flight together with another cycle.
RefreshOnlyInOverlap ==
    ~ ScrapedAtKept =>
        \E c \in Cycles :
            /\ cyc[c].pc = "add_listing"
            /\ cyc'[c] # cyc[c]
            /\ \E pair \in overlap : cyc[c].run \in pair

\* C26: no cycle ever changes scraped_at of a url that is already stored,
\* and no row first stored more than 24 hours ago is sent, whatever the
\* adapters return.
C26_NeverRefreshed == [][ScrapedAtKept /\ OldRowsNotSent]_vars

\* C26, cycles that overlap set apart: a cycle changes scraped_at of a
\* stored url only when it overlaps another cycle, and never to an instant
\* after the row's first store; so no row first stored more than 24 hours
\* ago is sent, whatever the adapters return.
C26_OldRowsNeverSent ==
    /\ [](\A r \in listings : r.scraped_at <= r.created_at)
    /\ [][RefreshOnlyInOverlap /\ OldRowsNotSent]_vars

\* The second cycle runs 36 hours after flat u1 was first stored; its row
\* is still unnotified and matches the criteria, and an adapter has
\* returned its url again: is_duplicate is about to find it.
C26_Witness ==
    \E c \in Cycles :
        /\ cyc[c].pc = "is_duplicate"
        /\ cyc[c].run = 2
        /\ \E r \in listings :
             /\ r.url = cyc[c].listings[cyc[c].k].url
             /\ r.created_at < now - 24
             /\ r.notified_at = None
             /\ ApplyFilters(r, DEFAULT_CRITERIA)
             /\ ApplyFilters(cyc[c].listings[cyc[c].k], DEFAULT_CRITERIA)

\* ---------------------------------------------------------------- C27
\* C27: under add_listing, mark_notified and a cycle in any interleaving,
\* every stored row stays stored (same id, same url), a row whose
\* notified_at is set keeps it set, and get_new_listings, in the cycle and
\* for any window, returns no row whose notified_at is set.
C27_StoreGrowsNotifiedStays ==
    /\ [][\A r \in listings :
            \E q \in listings' :
                /\ q.id = r.id
                /\ q.url = r.url
                /\ r.notified_at # None => q.notified_at # None]_vars
    /\ [][\A c \in Cycles :
            (cyc[c].pc = "get_new_listings" /\ cyc'[c] # cyc[c]) =>
                \A j \in 1..Len(cyc'[c].new_listings) :
                    \E r \in listings :
                        /\ r.id = cyc'[c].new_listings[j].id
                        /\ r.notified_at = None]_vars
    /\ [](\A hours \in { 1, 24, 48 } :
            \A r \in listings :
                r.notified_at # None =>
                    \A j \in 1..Len(GetNewListings(listings, hours, now)) :
                        GetNewListings(listings, hours, now)[j].id # r.id)

\* Two rows are stored and one of them is notified; the cycle's
\* get_new_listings has returned the other row alone.
C27_Witness ==
    /\ cyc["timer"].pc = "notify"
    /\ Cardinality(listings) = 2
    /\ Len(cyc["timer"].new_listings) = 1
    /\ \E r \in listings :
         /\ r.notified_at # None
         /\ r.id # cyc["timer"].new_listings[1].id
         /\ r.updated_at = r.created_at

\* ---------------------------------------------------------------- C28
\* A card from which _parse_item builds a record: it has a link, its
\* content parses and, for Scout24, its data-obid is not empty.
Parses(adapter, card) ==
    /\ card.href # None
    /\ card.content # 0
    /\ adapter = "Scout24Scraper" => card.obid # << >>

\* C28: every record scrape() has collected has a non-empty url and a
\* non-empty site_id; on every fetched page each card that parses has its
\* record among the page's records, whatever became of the cards before
\* it; and every stored row has a non-null, non-empty url.
C28_ReturnedRecordsValid ==
    /\ \A i \in 1..Len(frame.listings) :
         /\ frame.listings[i].url # None /\ frame.listings[i].url # << >>
         /\ frame.listings[i].site_id # None /\ frame.listings[i].site_id # << >>
    /\ \A k \in 1..Len(frame.seen) :
         frame.seen[k].fetched =>
             \A j \in 1..Len(frame.seen[k].items) :
                 Parses(frame.self, frame.seen[k].items[j]) =>
                     \E n \in 1..Len(frame.seen[k].records) :
                         frame.seen[k].records[n].url =
                             UrlOf(frame.self, frame.seen[k].items[j].href[1])
    /\ \A r \in listings : r.url # None /\ r.url # << >>

\* The cycle has stored the record of a card that came after a card on
\* which the parse raised.
C28_Witness ==
    \E r \in listings : r.url = << "http", "expose", "3" >>

\* ---------------------------------------------------------------- C29
\* C29: when mark_notified raises after send_notification returned true,
\* the send stays logged, no row changes and the record's notified_at is
\* still null, the run is over at once and logs nothing more; the next
\* get_new_listings returns the record while it is unnotified and inside
\* the 48 hours, and a sweep that comes to it while its scraped_at is inside
\* the 24-hour window calls send_notification for it again.
C29_FailedMarkSendsTwice ==
    [][/\ log \subseteq log'
       /\ \A e \in log' \ log :
            (e.op = "mark" /\ ~e.ok) =>
                \E c \in Cycles :
                    /\ cyc[c].run = e.run /\ cyc[c].pc = "mark_notified"
                    /\ Current(c).id = e.id
                    /\ \E f \in Events("send", e.id, TRUE) : f.run = e.run
                    /\ listings' = listings
                    /\ \A r \in listings' : r.id = e.id => r.notified_at = None
                    /\ cyc'[c].pc = "idle"
       /\ \A e \in log' \ log :
            \A f \in log : (f.op = "mark" /\ ~f.ok) => e.run # f.run
       /\ \A c \in Cycles :
            (cyc[c].pc = "get_new_listings" /\ cyc'[c].pc \in SweepPcs) =>
                \A r \in listings :
                    (/\ Events("mark", r.id, FALSE) # { }
                     /\ r.notified_at = None
                     /\ r.scraped_at > now - SINCE_HOURS) =>
                        \E i \in 1..Len(cyc'[c].new_listings) : cyc'[c].new_listings[i] = r
       /\ \A c \in Cycles :
            (/\ cyc[c].pc = "notify" /\ cyc'[c] # cyc[c]
             /\ Events("mark", Current(c).id, FALSE) # { }
             /\ Current(c).scraped_at > now - NOTIFY_HOURS) =>
                \E e \in log' \ log :
                    e.op = "send" /\ e.id = Current(c).id /\ e.run = cyc[c].run /\ e.n = 1]_vars

\* The record was sent in the first run and its mark_notified failed; the
\* second run has sent it again, and a record the first run did not come
\* to was sent by the second run too.
C29_Witness ==
    \E r \in listings :
        /\ \E e \in Events("send", r.id, TRUE) : e.run = 1
        /\ \E e \in Events("mark", r.id, FALSE) : e.run = 1
        /\ \E e \in Events("send", r.id, TRUE) : e.run = 2
        /\ \E q \in listings :
             /\ q.id # r.id
             /\ \A e \in log : e.id = q.id => e.run = 2
             /\ Events("send", q.id, TRUE) # { }
====
